---------------------------- MODULE Spec2Model ----------------------------
(***************************************************************************)
(* Falalo AI assistant: the task orchestration engine of                   *)
(* src/src/extension.ts (ChatViewProvider and ContextManager).             *)
(*                                                                         *)
(* JavaScript runs one callback at a time, so every action below is the    *)
(* code that runs between two suspension points (await) of one async       *)
(* function.  The collaborators (the language model, the terminals, the    *)
(* 60 s timer) are the environment: what they answer, and when, is chosen   *)
(* with \E from small sets.                                                *)
(*                                                                         *)
(* A file's content is a sequence of lines; a line is a short string       *)
(* without line break, "" is a blank line.                                 *)
(***************************************************************************)
EXTENDS Integers, Sequences, FiniteSets, TLC

VARIABLES
    hpc,               \* handleUserMessage: where the orchestrator stands
    steps,             \* steps[k].isLongRunning, the parsed plan
    cur,               \* stepNumber = i + 1 of the for loop
    outcome,           \* per step, what the orchestrator saw of the race
    reported,          \* "Total Steps Completed" of the summary, -1 before
    invoked,           \* history: the steps executeStep was invoked for
    sx,                \* per step, the activation of executeStep
    calls,             \* per step, the pending executeCommandWithRetry calls
    dispatches,        \* history, per step and command (see below)
    cycles,            \* history, per step and command (see below)
    scenario,          \* what the model is asked in this run (see Init)
    budget,            \* recovery commands the model may still propose
    disk,              \* the workspace: path -> content, or NoFile
    includedFiles,     \* ContextManager.includedFiles
    excludedFiles,     \* ContextManager.excludedFiles
    executedCommands,  \* ChatViewProvider.executedCommands
    ctx,               \* ContextManager: the constructor's updateContext
    cf,                \* the createFile calls studied on their own (below)
    inclusions,        \* ContextManager.inclusions
    exclusions,        \* ContextManager.exclusions
    globbed,           \* updateContext: what glob enumerated, in its order
    em,                \* EditManager.processEditMarkers (below)
    last,              \* the file block or edit that was processed last (below)
    mk,                \* the markers of one answer of the model (below)
    rc,                \* one executeCommandWithRetry call and its recoveries (below)
    rq,                \* per user message, its handleUserMessage activation (below)
    pl                 \* the edit-marker pipeline of a request (below)

vars == <<hpc, steps, cur, outcome, reported, invoked, sx, calls, dispatches,
          cycles, scenario, budget, disk, includedFiles, excludedFiles,
          executedCommands, ctx, cf, inclusions, exclusions, globbed, em,
          last, mk, rc, rq, pl>>

---------------------------------------------------------------------------
(* Bounds of the model and constants of the program.                       *)

MaxSteps == 2          \* steps of a plan
MaxWriters == 2        \* createFile calls that may overlap
MaxPlanRecoveryCmds == 1  \* recovery commands proposed in a "plan" run
MaxRecoveryCmds == 4   \* recovery commands proposed in a "command" run
maxFiles == 2          \* falalo.maxContextFiles, scaled down
MaxEditCalls == 2      \* calls of processEditMarkers in a run
maxRetries == 4        \* ChatViewProvider.maxRetries

Paths == {"a.txt", "b.txt", "c.txt"}
NoFile == <<"?">>      \* no such file (no content of the model has a "?" line)

\* The commands the model may propose.  "false" exits non-zero on every
\* run, "make" exits either way, "npm run dev" matches the long-running
\* signature.
Cmds == {"false", "make", "npm run dev"}

---------------------------------------------------------------------------
(* Strings and contents.                                                   *)

RECURSIVE SumLen(_)
SumLen(c) == IF c = <<>> THEN 0 ELSE Len(Head(c)) + SumLen(Tail(c))

\* content.length: the lines and the line breaks between them
Length(c) == IF c = <<>> THEN 0 ELSE SumLen(c) + Len(c) - 1

RECURSIVE TrimStart(_)
TrimStart(c) ==
    IF c # <<>> /\ Head(c) = "" THEN TrimStart(Tail(c)) ELSE c

RECURSIVE TrimEnd(_)
TrimEnd(c) ==
    IF c # <<>> /\ c[Len(c)] = "" THEN TrimEnd(SubSeq(c, 1, Len(c) - 1)) ELSE c

\* String.prototype.trim on a content: leading and trailing blank lines go
Trim(c) == TrimEnd(TrimStart(c))

\* fileContent.split('\n') and lines.join('\n') on the contents of the
\* model, where <<>> is the empty string
split(c) == IF c = <<>> THEN <<"">> ELSE c
join(lines) == IF lines = <<"">> THEN <<>> ELSE lines

\* the command matches /(npm run (dev|start|serve)|ng serve|...)/i
isLongRunningCommand(cmd) == cmd \in {"npm run dev"}

\* what the wrapped command's `echo $?` can capture for this command
ExitCodes(cmd) == IF cmd = "false" THEN {1} ELSE {0, 1}

---------------------------------------------------------------------------
(* ContextManager.                                                         *)

\* a variant of includeFile without the capacity test
includeFileUnbounded(inc, exc, file) ==
    [ok |-> TRUE, inc |-> inc \cup {file}, exc |-> exc \ {file}]

\* a variant of includeFile that leaves the file in the excluded set
includeFileStillExcluded(inc, exc, file) ==
    IF Cardinality(inc) >= maxFiles
    THEN [ok |-> FALSE, inc |-> inc, exc |-> exc]
    ELSE [ok |-> TRUE, inc |-> inc \cup {file}, exc |-> exc]

\* includeFile: [ok, inc, exc]; it throws when the set is full, whether or
\* not the file is already in it
includeFile(inc, exc, file) ==
    IF Cardinality(inc) >= maxFiles
    THEN [ok |-> FALSE, inc |-> inc, exc |-> exc]
    ELSE [ok |-> TRUE, inc |-> inc \cup {file}, exc |-> exc \ {file}]

\* a variant of excludeFile that leaves the file in the included set
excludeFileStillIncluded(inc, exc, file) ==
    [inc |-> inc, exc |-> exc \cup {file}]

\* excludeFile and removeFromContext: [inc, exc]
excludeFile(inc, exc, file) == [inc |-> inc \ {file}, exc |-> exc \cup {file}]
removeFromContext(inc, exc, file) == [inc |-> inc \ {file}, exc |-> exc \ {file}]

\* The paths of the workspace that the rebuild of the context is studied on
\* (SpecContext, below).
ContextPaths ==
    {"README.md", "Makefile", "src/util.ts", "src/logo.png",
     "node_modules/m/index.js"}

\* file.split('/'): the segments of a path of the model
Segments(file) ==
    CASE file = "src/util.ts" -> <<"src", "util.ts">>
      [] file = "src/logo.png" -> <<"src", "logo.png">>
      [] file = "node_modules/m/index.js" -> <<"node_modules", "m", "index.js">>
      [] OTHER -> <<file>>

\* what follows the last dot of a path of the model, "" without a dot
Extension(file) ==
    CASE file \in {"a.txt", "b.txt", "c.txt"} -> "txt"
      [] file = "README.md" -> "md"
      [] file = "src/util.ts" -> "ts"
      [] file = "src/logo.png" -> "png"
      [] file = "node_modules/m/index.js" -> "js"
      [] OTHER -> ""

\* the glob patterns of the model
CodeFiles == "**/*.{js,ts,jsx,tsx,py,java,cpp,c,go,rs}"
InDirectory == {"**/node_modules/**", "**/.git/**", "**/dist/**", "**/build/**"}
DirectoryOf(pattern) ==
    CASE pattern = "**/node_modules/**" -> "node_modules"
      [] pattern = "**/.git/**" -> ".git"
      [] pattern = "**/dist/**" -> "dist"
      [] pattern = "**/build/**" -> "build"

\* minimatch(file, pattern), for the patterns of the model; no path of the
\* model has a segment that starts with a dot
minimatch(file, pattern) ==
    LET seg == Segments(file)
    IN  CASE pattern = "**/*" -> TRUE
          [] pattern = CodeFiles ->
                Extension(file) \in {"js", "ts", "jsx", "tsx", "py", "java",
                                     "cpp", "c", "go", "rs"}
          [] pattern = "src/**" -> Len(seg) > 1 /\ seg[1] = "src"
          [] pattern \in InDirectory ->
                \E i \in 1..(Len(seg) - 1) : seg[i] = DirectoryOf(pattern)
          [] OTHER -> FALSE

\* the settings the extension may run with: the defaults that package.json
\* contributes, the fallbacks of the constructor's config.get, a user's
ContextSettings ==
    { [inclusions |-> {CodeFiles}, exclusions |-> InDirectory],
      [inclusions |-> {"**/*"},
       exclusions |-> {"**/node_modules/**", "**/.git/**"}],
      [inclusions |-> {"src/**"}, exclusions |-> {"**/node_modules/**"}] }

\* the orders a set can be enumerated in
Enumerations(S) ==
    {f \in [1..Cardinality(S) -> S] : \A i, j \in DOMAIN f : i # j => f[i] # f[j]}

\* glob('**/*', {ignore}): the paths of the tree that match no ignore
\* pattern, in an order that the library does not promise
glob(tree, ignore) ==
    Enumerations({f \in tree : ~(\E g \in ignore : minimatch(f, g))})

\* shouldIncludeFile: the file types of the regular expression pass without
\* a look at the patterns
shouldIncludeFile(file, incl, excl) ==
    \/ Extension(file) \in {"ts", "js", "json", "md", "txt", "html", "css",
                            "py", "java", "cpp", "h", "c", "go", "rs", "php"}
    \/ /\ \E g \in incl : minimatch(file, g)
       /\ ~(\E g \in excl : minimatch(file, g))

\* the for loop of updateContext, inc the included set so far
RECURSIVE updateContextLoop(_, _, _, _)
updateContextLoop(files, inc, incl, excl) ==
    IF files = <<>> THEN inc
    ELSE updateContextLoop(Tail(files),
            IF shouldIncludeFile(Head(files), incl, excl)
               /\ Cardinality(inc) < maxFiles
            THEN inc \cup {Head(files)} ELSE inc,
            incl, excl)

\* updateContext on the files that glob found: both sets are cleared and the
\* files that pass shouldIncludeFile are included, in the order of glob, while
\* there is room.  The included set it ends with.
updateContext(files, incl, excl) == updateContextLoop(files, {}, incl, excl)

---------------------------------------------------------------------------
(* ChatViewProvider.createFile, as a function of the workspace:            *)
(* [ok, disk, inc, exc].  The overwrite veto throws before the write; the  *)
(* write comes before the auto-include, which may throw after it.          *)

createFile(d, inc, exc, filePath, content) ==
    IF d[filePath] # NoFile
       /\ Length(Trim(content)) <= Length(Trim(d[filePath]))
    THEN [ok |-> FALSE, disk |-> d, inc |-> inc, exc |-> exc]
    ELSE LET written == [d EXCEPT ![filePath] = content]
             r == includeFile(inc, exc, filePath)
         IN  [ok |-> r.ok, disk |-> written, inc |-> r.inc, exc |-> r.exc]

\* A code fence line, /^```[\w-]*$/.  A backtick cannot stand in a string
\* of this module: ''' stands for the three backticks.
IsFence(l) == l \in {"'''", "'''ts"}

\* .replace(/^```[\w-]*\n/gm, ''): a fence line followed by a line break goes,
\* so the last line stays whatever it is
RECURSIVE DropFenceLines(_)
DropFenceLines(c) ==
    IF Len(c) <= 1 THEN c
    ELSE IF IsFence(Head(c)) THEN DropFenceLines(Tail(c))
         ELSE <<Head(c)>> \o DropFenceLines(Tail(c))

\* .replace(/```$/gm, ''): three backticks ending a line go, the line stays
StripClosingFence(c) == [n \in 1..Len(c) |-> IF c[n] = "'''" THEN "" ELSE c[n]]

\* processFileCreationMarkers' cleanContent.  The two single-backtick
\* patterns match no line of the model's contents.
cleanContent(c) == Trim(StripClosingFence(DropFenceLines(Trim(c))))

\* processFileCreationMarkers over the blocks of a text, in document order:
\* the first createFile that throws ends it.  [ok, disk, inc, exc, n], n the
\* files written.
RECURSIVE processFileCreationMarkers(_, _, _, _)
processFileCreationMarkers(d, inc, exc, blocks) ==
    IF blocks = <<>>
    THEN [ok |-> TRUE, disk |-> d, inc |-> inc, exc |-> exc, n |-> 0]
    ELSE LET b == Head(blocks)
             r == createFile(d, inc, exc, b.path, cleanContent(b.content))
         IN  IF ~r.ok
             THEN [ok |-> FALSE, disk |-> r.disk, inc |-> r.inc, exc |-> r.exc,
                   n |-> IF r.disk = d THEN 0 ELSE 1]
             ELSE LET rest == processFileCreationMarkers(r.disk, r.inc, r.exc,
                                                         Tail(blocks))
                  IN  [rest EXCEPT !.n = @ + 1]

---------------------------------------------------------------------------
(* The markers of an answer of the model.  An answer is a sequence of      *)
(* lines; fileRegex and commandRegex run over the whole answer.            *)

MaxTextLines == 5      \* lines of an answer

MarkerLines == {"### a.txt", "### b.txt", "%%%", "$ ls", "$ make", "x"}

\* the answers of the model: every text of at most MaxTextLines lines
MarkerTexts == UNION {[1..n -> MarkerLines] : n \in 0..MaxTextLines}

\* fileRegex, /###\s*([^\n]+)\s*\n/: match[1].trim() when the line holds
\* the marker, "" when it does not
headerPath(line) ==
    CASE line = "### a.txt" -> "a.txt"
      [] line = "### b.txt" -> "b.txt"
      [] OTHER -> ""

\* fileRegex, /%%%/: the line holds the closing marker
isClosing(line) == line = "%%%"

\* commandRegex, /\$ (.*)/: match[1] when the line holds "$ ", "" when not
commandOf(line) ==
    CASE line = "$ ls" -> "ls"
      [] line = "$ make" -> "make"
      [] OTHER -> ""

Least(S) == CHOOSE n \in S : \A m \in S : n <= m

\* match[2] of a match whose marker is line h and whose %%% is line t: the
\* lines between them, each with its line break
blockBody(text, h, t) ==
    IF t = h + 1 THEN <<>> ELSE SubSeq(text, h + 1, t - 1) \o <<"">>

\* [...text.matchAll(fileRegex)] from line `from` on: a match starts at the
\* first ### and ends at the first %%% after it ([\s\S]*? is lazy and runs
\* over anything, other ### lines included); the search goes on behind it
RECURSIVE fileMatches(_, _)
fileMatches(text, from) ==
    LET hs == {h \in from..Len(text) : headerPath(text[h]) # ""}
    IN  IF hs = {} THEN <<>>
        ELSE LET h == Least(hs)
                 ts == {t \in (h + 1)..Len(text) : isClosing(text[t])}
             IN  IF ts = {} THEN <<>>
                 ELSE LET t == Least(ts)
                      IN  <<[path |-> headerPath(text[h]),
                             content |-> blockBody(text, h, t)]>>
                          \o fileMatches(text, t + 1)

\* [...text.matchAll(commandRegex)].map(match => match[1])
RECURSIVE commandMatches(_)
commandMatches(text) ==
    IF text = <<>> THEN <<>>
    ELSE (IF commandOf(Head(text)) = "" THEN <<>>
          ELSE <<commandOf(Head(text))>>) \o commandMatches(Tail(text))

\* executeStep's files: path match[1].trim(), content match[2].trim()
stepFiles(text) ==
    LET ms == fileMatches(text, 1)
    IN  [n \in 1..Len(ms) |-> [path |-> ms[n].path,
                               content |-> Trim(ms[n].content)]]

\* executeStep's loop over files: the first createFile that throws ends it
RECURSIVE createFiles(_, _, _, _)
createFiles(d, inc, exc, files) ==
    IF files = <<>>
    THEN [ok |-> TRUE, disk |-> d, inc |-> inc, exc |-> exc]
    ELSE LET r == createFile(d, inc, exc, Head(files).path,
                             Head(files).content)
         IN  IF ~r.ok THEN r
             ELSE createFiles(r.disk, r.inc, r.exc, Tail(files))

NoMarkers ==
    [pc |-> "idle", kind |-> "", text |-> <<>>, before |-> <<>>,
     files |-> <<>>, commands |-> <<>>, dispatched |-> <<>>, ok |-> FALSE]

---------------------------------------------------------------------------
(* ChatViewProvider.editFileBlock: [ok, disk, wrote].  An edit is          *)
(* [file, id, line, code]: with id = "" the block identifier is the line   *)
(* number line, otherwise it is the name id of a block between the lines   *)
(* "// BEGIN id" and "// END id".  The new code is one line.  It throws    *)
(* for a missing file, for a line out of range and for a block that is not *)
(* found; content that is already as asked is left alone, and that is no   *)
(* error.                                                                  *)

\* the lines that open and close the block of a name
Begin(id) == CASE id = "A" -> "// BEGIN A" [] OTHER -> "// BEGIN"
End(id) == CASE id = "A" -> "// END A" [] OTHER -> "// END"

\* content.match(blockRegex): a BEGIN line with an END line after it
HasBlock(lines, id) ==
    \E i, j \in 1..Len(lines) :
        i < j /\ lines[i] = Begin(id) /\ lines[j] = End(id)

\* content.replace(blockRegex, newBlock): every stretch from a BEGIN line to
\* the next END line becomes the new block
RECURSIVE ReplaceBlocks(_, _, _)
ReplaceBlocks(lines, id, newBlock) ==
    IF lines = <<>> THEN <<>>
    ELSE IF Head(lines) = Begin(id)
            /\ \E j \in 2..Len(lines) : lines[j] = End(id)
    THEN LET j == CHOOSE j \in 2..Len(lines) :
                    /\ lines[j] = End(id)
                    /\ \A h \in 2..(j - 1) : lines[h] # End(id)
         IN  newBlock \o ReplaceBlocks(SubSeq(lines, j + 1, Len(lines)),
                                       id, newBlock)
    ELSE <<Head(lines)>> \o ReplaceBlocks(Tail(lines), id, newBlock)

\* a variant of editFileBlock that writes without comparing
editFileBlockAlwaysWrites(d, e) ==
    IF d[e.file] = NoFile THEN [ok |-> FALSE, disk |-> d, wrote |-> FALSE]
    ELSE IF e.id = ""
    THEN IF ~(e.line > 0 /\ e.line <= Len(split(d[e.file])))
         THEN [ok |-> FALSE, disk |-> d, wrote |-> FALSE]
         ELSE [ok |-> TRUE,
               disk |-> [d EXCEPT ![e.file] =
                           join([split(@) EXCEPT ![e.line] = e.code])],
               wrote |-> TRUE]
    ELSE IF ~HasBlock(d[e.file], e.id)
         THEN [ok |-> FALSE, disk |-> d, wrote |-> FALSE]
         ELSE [ok |-> TRUE,
               disk |-> [d EXCEPT ![e.file] =
                           ReplaceBlocks(@, e.id,
                                         <<Begin(e.id), e.code, End(e.id)>>)],
               wrote |-> TRUE]

editFileBlock(d, e) ==
    IF d[e.file] = NoFile THEN [ok |-> FALSE, disk |-> d, wrote |-> FALSE]
    ELSE IF e.id = ""
    THEN LET lines == split(d[e.file])
         IN  IF ~(e.line > 0 /\ e.line <= Len(lines))
             THEN [ok |-> FALSE, disk |-> d, wrote |-> FALSE]
             ELSE IF lines[e.line] = e.code
             THEN [ok |-> TRUE, disk |-> d, wrote |-> FALSE]
             ELSE [ok |-> TRUE,
                   disk |-> [d EXCEPT ![e.file] =
                               join([lines EXCEPT ![e.line] = e.code])],
                   wrote |-> TRUE]
    ELSE LET content == d[e.file]
             newBlock == <<Begin(e.id), e.code, End(e.id)>>
             updatedContent == ReplaceBlocks(content, e.id, newBlock)
         IN  IF ~HasBlock(content, e.id)
             THEN [ok |-> FALSE, disk |-> d, wrote |-> FALSE]
             ELSE IF updatedContent = content
             THEN [ok |-> TRUE, disk |-> d, wrote |-> FALSE]
             ELSE [ok |-> TRUE,
                   disk |-> [d EXCEPT ![e.file] = updatedContent],
                   wrote |-> TRUE]

\* the EDIT_FILE loop of handleCommandFailure: a failed edit is reported and
\* the next one tried.  [rs, disk, n]: rs is recoverySuccessful, n the edits
\* written.
RECURSIVE processEdits(_, _)
processEdits(d, edits) ==
    IF edits = <<>> THEN [rs |-> FALSE, disk |-> d, n |-> 0]
    ELSE LET r == editFileBlock(d, Head(edits))
             rest == processEdits(r.disk, Tail(edits))
         IN  [rs |-> r.ok \/ rest.rs, disk |-> rest.disk,
              n |-> rest.n + (IF r.wrote THEN 1 ELSE 0)]

\* last, the file block or the edit that SpecBlocks processed last:
\*   kind    "none", "step" (a file block of executeStep), "recovery" (a
\*           file block of processFileCreationMarkers), "edit"
\*   block   the file block, [path, content]
\*   edit    the edit, [file, id, line, code]
\*   ok      nothing was thrown
\*   wrote   editFileBlock wrote the file
\*   before  the workspace before
NoOp == [kind |-> "none", block |-> [path |-> "", content |-> <<>>],
         edit |-> [file |-> "", id |-> "", line |-> 0, code |-> ""],
         ok |-> FALSE, wrote |-> FALSE, before |-> <<>>]

---------------------------------------------------------------------------
(* EditManager (src/unnamed/part_003).  A text is a sequence of lines and  *)
(* a line the sequence of its parts, line.split('|') with every part       *)
(* trimmed: <<"#replace-block#", "a.txt", "fix", "5-3">> is a header,       *)
(* <<"#end-block#">> ends a block, <<"x">> is a line of a body.  No body     *)
(* line of the model holds a '|'.                                          *)

REPLACE_BLOCK == "#replace-block#"
ADD_BLOCK == "#add-block#"
DELETE_BLOCK == "#delete-block#"
REWRITE_FILE == "#rewrite-file#"
END_BLOCK == "#end-block#"

\* a line number that is undefined; parseInt gives no negative number for a
\* part of a line range, which split('-') has cut at every '-'
Undefined == -1

\* str.split('-') of the line-number fields of the model
SplitRange(str) ==
    CASE str = "1-2" -> <<"1", "2">>
      [] str = "2-3" -> <<"2", "3">>
      [] str = "5-3" -> <<"5", "3">>
      [] str = "2-9" -> <<"2", "9">>
      [] str = "5-7" -> <<"5", "7">>
      [] OTHER -> <<str>>

\* parseInt(num, 10), and undefined where it gives NaN
ParseInt(num) ==
    CASE num = "0" -> 0
      [] num = "1" -> 1
      [] num = "2" -> 2
      [] num = "3" -> 3
      [] num = "5" -> 5
      [] num = "7" -> 7
      [] num = "9" -> 9
      [] OTHER -> Undefined

NoBlock ==
    [type |-> "null", file |-> "", description |-> "", content |-> <<>>,
     startLine |-> Undefined, endLine |-> Undefined]

\* the for loop of parseEditBlocks over the lines that are left
RECURSIVE parseLines(_, _, _)
parseLines(lines, currentBlock, blocks) ==
    IF lines = <<>> THEN blocks
    ELSE
    LET line == Head(lines)
        rest == Tail(lines)
        marker == line[1]
        fresh == [type |-> IF marker = REPLACE_BLOCK THEN "replace"
                           ELSE IF marker = ADD_BLOCK THEN "add"
                           ELSE IF marker = DELETE_BLOCK THEN "delete"
                           ELSE "rewrite",
                  file |-> line[2], description |-> line[3],
                  content |-> <<>>,
                  startLine |-> Undefined, endLine |-> Undefined]
        parts == SplitRange(line[4])
        lineRange == [i \in 1..Len(parts) |-> ParseInt(parts[i])]
    IN  IF marker \in {REPLACE_BLOCK, ADD_BLOCK, DELETE_BLOCK, REWRITE_FILE}
        THEN IF Len(line) < 3
             THEN parseLines(rest, currentBlock, blocks)
             ELSE IF fresh.type # "rewrite" /\ Len(line) > 3
             THEN IF \E i \in 1..Len(lineRange) : lineRange[i] = Undefined
                  THEN parseLines(rest, fresh, blocks)
                  ELSE parseLines(rest,
                         [fresh EXCEPT
                            !.startLine = lineRange[1],
                            !.endLine = IF Len(lineRange) > 1
                                           /\ lineRange[2] # 0
                                        THEN lineRange[2] ELSE lineRange[1]],
                         blocks)
             ELSE parseLines(rest, fresh, blocks)
        ELSE IF line = <<END_BLOCK>> /\ currentBlock # NoBlock
        THEN IF Trim(currentBlock.content) # <<>>
             THEN parseLines(rest, NoBlock,
                    Append(blocks, [currentBlock EXCEPT !.content = Trim(@)]))
             ELSE parseLines(rest, NoBlock, blocks)
        ELSE IF currentBlock # NoBlock
        THEN parseLines(rest,
               [currentBlock EXCEPT !.content = Append(@, line[1])], blocks)
        ELSE parseLines(rest, currentBlock, blocks)

parseEditBlocks(text) == parseLines(text, NoBlock, <<>>)

\* validateEditBlock: the error strings; every block of parseEditBlocks has
\* a type and a content
validateEditBlock(edit) ==
    IF edit.file = "" THEN <<"File path is required">>
    ELSE IF edit.description = "" THEN <<"Description is required">>
    ELSE
    LET inverted ==
            IF edit.startLine # Undefined /\ edit.endLine # Undefined
               /\ edit.startLine > edit.endLine
            THEN <<"Invalid line range (start line must be <= end line)">>
            ELSE <<>>
        start == IF edit.startLine = Undefined
                 THEN <<"Start line is required">> ELSE <<>>
        end == IF edit.endLine = Undefined
               THEN <<"End line is required">> ELSE <<>>
    IN  CASE edit.type \in {"replace", "delete"} -> start \o end \o inverted
          [] edit.type = "add" -> start
          [] OTHER -> <<>>

\* lines.slice(a, b) and lines.slice(a), for a >= 0
slice(lines, a, b) ==
    LET to == IF b < Len(lines) THEN b ELSE Len(lines)
    IN  IF to > a THEN [i \in 1..(to - a) |-> lines[a + i]] ELSE <<>>
sliceFrom(lines, a) == slice(lines, a, Len(lines))

\* The handlers: [ok, disk, startLine, endLine, error], startLine and endLine
\* as the handler leaves them in the edit.

handleReplaceBlock(d, edit) ==
    LET lines == split(d[edit.file])
        endLine == IF edit.endLine = 0 \/ edit.endLine > Len(lines)
                   THEN Len(lines) ELSE edit.endLine
    IN  IF edit.startLine = 0 \/ edit.startLine < 1
        THEN [ok |-> FALSE, disk |-> d, startLine |-> edit.startLine,
              endLine |-> edit.endLine, error |-> "Invalid start line"]
        ELSE [ok |-> TRUE,
              disk |-> [d EXCEPT ![edit.file] =
                          join(slice(lines, 0, edit.startLine - 1)
                               \o split(Trim(edit.content))
                               \o sliceFrom(lines, endLine))],
              startLine |-> edit.startLine, endLine |-> endLine,
              error |-> ""]

\* a variant of handleAddBlock that writes the new content over the line
handleAddBlockOverwrites(d, edit) ==
    LET lines == split(d[edit.file])
        startLine == IF edit.startLine > Len(lines) + 1
                     THEN Len(lines) + 1 ELSE edit.startLine
    IN  IF edit.startLine = 0 \/ edit.startLine < 1
        THEN [ok |-> FALSE, disk |-> d, startLine |-> edit.startLine,
              endLine |-> edit.endLine, error |-> "Invalid line number"]
        ELSE [ok |-> TRUE,
              disk |-> [d EXCEPT ![edit.file] =
                          join(slice(lines, 0, startLine - 1)
                               \o split(Trim(edit.content))
                               \o sliceFrom(lines, startLine))],
              startLine |-> startLine, endLine |-> edit.endLine,
              error |-> ""]

handleAddBlock(d, edit) ==
    LET lines == split(d[edit.file])
        startLine == IF edit.startLine > Len(lines) + 1
                     THEN Len(lines) + 1 ELSE edit.startLine
    IN  IF edit.startLine = 0 \/ edit.startLine < 1
        THEN [ok |-> FALSE, disk |-> d, startLine |-> edit.startLine,
              endLine |-> edit.endLine, error |-> "Invalid line number"]
        ELSE [ok |-> TRUE,
              disk |-> [d EXCEPT ![edit.file] =
                          join(slice(lines, 0, startLine - 1)
                               \o split(Trim(edit.content))
                               \o sliceFrom(lines, startLine - 1))],
              startLine |-> startLine, endLine |-> edit.endLine,
              error |-> ""]

handleDeleteBlock(d, edit) ==
    LET lines == split(d[edit.file])
    IN  IF edit.startLine = 0 \/ edit.endLine = 0 \/ edit.startLine < 1
           \/ edit.endLine > Len(lines)
        THEN [ok |-> FALSE, disk |-> d, startLine |-> edit.startLine,
              endLine |-> edit.endLine, error |-> "Invalid line range"]
        ELSE [ok |-> TRUE,
              disk |-> [d EXCEPT ![edit.file] =
                          join(slice(lines, 0, edit.startLine - 1)
                               \o sliceFrom(lines, edit.endLine))],
              startLine |-> edit.startLine, endLine |-> edit.endLine,
              error |-> ""]

\* a variant of handleRewriteFile that appends to what the file holds
handleRewriteFileAppends(d, edit) ==
    [ok |-> TRUE,
     disk |-> [d EXCEPT ![edit.file] =
                 IF @ = NoFile THEN Trim(edit.content)
                 ELSE @ \o Trim(edit.content)],
     startLine |-> edit.startLine, endLine |-> edit.endLine, error |-> ""]

handleRewriteFile(d, edit) ==
    [ok |-> TRUE, disk |-> [d EXCEPT ![edit.file] = Trim(edit.content)],
     startLine |-> edit.startLine, endLine |-> edit.endLine, error |-> ""]

\* one turn of the loop of processEditMarkers: the block is validated, a
\* missing file is created empty unless the block rewrites it, and the
\* handler of the block's type runs; what is thrown on the way is caught
applyEdit(d, edit) ==
    IF validateEditBlock(edit) # <<>>
    THEN [ok |-> FALSE, disk |-> d, startLine |-> edit.startLine,
          endLine |-> edit.endLine, error |-> "Invalid edit block"]
    ELSE LET created == IF d[edit.file] = NoFile /\ edit.type # "rewrite"
                        THEN [d EXCEPT ![edit.file] = <<>>] ELSE d
         IN  CASE edit.type = "replace" -> handleReplaceBlock(created, edit)
               [] edit.type = "add" -> handleAddBlock(created, edit)
               [] edit.type = "delete" -> handleDeleteBlock(created, edit)
               [] OTHER -> handleRewriteFile(created, edit)

\* em, the call of processEditMarkers that SpecEdits studies:
\*   pc      "idle" or "loop"
\*   text    the text of the call
\*   entry   the workspace when the call was made
\*   blocks  the blocks that the loop has still to apply
\*   errors  the errors of the call so far
\*   last    the turn of the loop that ran last: the block, whether it was
\*           applied, the file before and after, the line range as the
\*           handler left it
\*   done    history: per call that returned, its text, its result, the
\*           workspace it found (before) and the workspace it left (disk)
NoTurn == [edit |-> NoBlock, ok |-> FALSE, before |-> NoFile, after |-> NoFile,
           startLine |-> Undefined, endLine |-> Undefined]
NoEdits == [pc |-> "idle", text |-> <<>>, entry |-> <<>>, blocks |-> <<>>,
            errors |-> <<>>, last |-> NoTurn, done |-> <<>>]

---------------------------------------------------------------------------
(* What the model may answer.  A run is one of two scenarios, so that both *)
(* the orchestration of several steps and a deep recovery of one command   *)
(* fit the bounds:                                                         *)
(*   "plan":    a plan of 0..MaxSteps steps whose implementations hold     *)
(*              file blocks and commands; the recovery plans propose at    *)
(*              most MaxPlanRecoveryCmds commands in all;                  *)
(*   "command": a plan of one step whose implementation is one command;    *)
(*              the recovery plans propose at most MaxRecoveryCmds.        *)

FA == [path |-> "a.txt", content |-> <<"x">>]
FAlong == [path |-> "a.txt", content |-> <<"x", "y">>]
FB == [path |-> "b.txt", content |-> <<"x">>]

PlanSizes(sc) == IF sc = "plan" THEN 0..MaxSteps ELSE {1}

\* the file blocks and the command lines of a step's implementation
StepFileLists(sc) ==
    IF sc = "plan" THEN {<<>>, <<FA, FB>>, <<FAlong>>} ELSE {<<>>}
StepCmdLists(sc) ==
    IF sc = "plan" THEN {<<>>, <<"make">>, <<"false", "npm run dev">>}
    ELSE {<<"false">>, <<"make">>}

\* a recovery plan: its EDIT_FILE blocks, file blocks and command lines
Answer(el, fl, cl) == [edits |-> el, files |-> fl, cmds |-> cl]
EditA == [file |-> "a.txt", id |-> "", line |-> 1, code |-> "y"]
RecoveryAnswers ==
    { Answer(<<>>, <<>>, <<>>),
      Answer(<<EditA>>, <<>>, <<>>),
      Answer(<<>>, <<FB>>, <<>>),
      Answer(<<>>, <<>>, <<"false">>),
      Answer(<<>>, <<>>, <<"make", "make">>),
      Answer(<<>>, <<FB>>, <<"false", "make">>) }

---------------------------------------------------------------------------
(* The exit code of a regular command.  The wrapped command ends with      *)
(* `echo $? > .exitcode_<id>`; the handler of onDidCloseTerminal reads the *)
(* file when the terminal has closed.                                      *)

MaxCounted == 5        \* recoveries counted in a chain, further ones are not

\* what may be in the exit-code file when the terminal has closed: no file,
\* nothing yet, a code and its line break, something that is no number
Captures ==
    {NoFile, <<>>, <<"0", "">>, <<"1", "">>, <<"2", "">>, <<"x", "">>}

\* a variant of exitCodeStr where a missing file reads as success
exitCodeStrLenient(capture) ==
    IF capture = NoFile THEN <<"0">> ELSE capture

\* fs.promises.readFile(exitCodePath, 'utf8').catch(() => '1')
exitCodeStr(capture) ==
    IF capture = NoFile THEN <<"1">> ELSE capture

\* parseInt(exitCodeStr.trim(), 10), Undefined standing for NaN
parseExitCode(capture) ==
    LET str == Trim(exitCodeStr(capture))
    IN  IF str = <<>> THEN Undefined ELSE ParseInt(str[1])

NoRetry ==
    [pc |-> "idle", cmd |-> "", capture |-> NoFile, recoveries |-> 0,
     rs |-> FALSE, result |-> FALSE]

---------------------------------------------------------------------------
(* The user messages of a session.  The webview posts a message for every  *)
(* click on Send; onDidReceiveMessage calls handleUserMessage for each.    *)

MaxRequests == 2       \* user messages in a session

NoRequest ==
    [pc |-> "none", steps |-> 0, cur |-> 0, file |-> FALSE, cmd |-> FALSE]

NoRequests == [r \in 1..MaxRequests |-> NoRequest]

---------------------------------------------------------------------------
(* The edit-marker pipeline, handleUserMessage of src/unnamed/part_003: a  *)
(* plan, then per step up to MaxAttempts requests for an implementation,   *)
(* each given to EditManager.processEditMarkers.                           *)

MaxAttempts == 4       \* while (!success && retryCount < 4)

\* the loop of processEditMarkers over the blocks: [success, errors, disk]
RECURSIVE processEditLoop(_, _, _)
processEditLoop(d, blocks, errors) ==
    IF blocks = <<>>
    THEN [success |-> errors = <<>>, errors |-> errors, disk |-> d]
    ELSE LET r == applyEdit(d, Head(blocks))
         IN  processEditLoop(r.disk, Tail(blocks),
                             IF r.ok THEN errors ELSE Append(errors, r.error))

\* EditManager.processEditMarkers(text)
processEditMarkers(d, text) == processEditLoop(d, parseEditBlocks(text), <<>>)

\* pl, the pipeline of one request:
\*   pc          "idle", "planning", "attempt" (an implementation has been
\*               requested) or "finished"
\*   steps       the number of steps of the plan
\*   step        the step of the for loop
\*   retryCount, hasErrors   the variables of the code
\*   requests    history: per step, the implementations requested
\*   lastOk      history: per step, editResult.success of its last attempt
\*   status      the final message: "success", "errors", or "error" from the
\*               catch
NoPipeline ==
    [pc |-> "idle", steps |-> 0, step |-> 0, retryCount |-> 0,
     hasErrors |-> FALSE, requests |-> <<>>, lastOk |-> <<>>, status |-> ""]

---------------------------------------------------------------------------
(* The initial state: the extension is activated on an empty workspace, the *)
(* constructor's updateContext has finished, and no message has arrived.   *)

NoCalls == [f \in {} |-> 0]
NoWriter == [pc |-> "idle", path |-> "", content |-> <<>>, over |-> <<>>,
             err |-> "none"]
NoStep == [pc |-> "none", files |-> <<>>, cmds |-> <<>>, err |-> "none",
           tolerated |-> 0]

Init ==
    /\ hpc = "idle"
    /\ steps = <<>>
    /\ cur = 0
    /\ outcome = <<>>
    /\ reported = -1
    /\ invoked = <<>>
    /\ sx = <<>>
    /\ calls = <<>>
    /\ dispatches = <<>>
    /\ cycles = <<>>
    /\ scenario \in {"plan", "command"}
    /\ budget = IF scenario = "plan" THEN MaxPlanRecoveryCmds
                ELSE MaxRecoveryCmds
    /\ disk = [p \in Paths |-> NoFile]
    /\ includedFiles = {}
    /\ excludedFiles = {}
    /\ executedCommands = {}
    /\ ctx = "ready"
    /\ cf = [w \in 1..MaxWriters |-> NoWriter]
    /\ inclusions = {CodeFiles}
    /\ exclusions = InDirectory
    /\ globbed = <<>>
    /\ em = NoEdits
    /\ last = NoOp
    /\ pl = NoPipeline
    /\ rq = NoRequests
    /\ rc = NoRetry
    /\ mk = NoMarkers

---------------------------------------------------------------------------
(* handleUserMessage.                                                      *)
(*   hpc: "idle", "planning" (the planning call is out), "race" (awaiting  *)
(*   Promise.race of executeStep and the timer for step cur), "steperr"    *)
(*   (awaiting handleStepError), and the ways it returns: "nosteps",       *)
(*   "asked" (the skip/retry/stop question), "summary", "error".           *)

\* what handleStepError returns, with or without an answer of the model
handleStepError == FALSE

\* the for loop's i++
NextStep(k) == k + 1

\* The loop goes on after step k: the next executeStep is invoked, or the
\* loop is over and the summary is posted.
Advance(k) ==
    IF NextStep(k) <= Len(steps)
    THEN /\ cur' = NextStep(k)
         /\ hpc' = "race"
         /\ sx' = [sx EXCEPT ![NextStep(k)] = [NoStep EXCEPT !.pc = "model"]]
         /\ invoked' = Append(invoked, NextStep(k))
         /\ UNCHANGED reported
    ELSE /\ hpc' = "summary"
         /\ reported' = Len(steps)
         /\ UNCHANGED <<cur, sx, invoked>>

\* a message arrives: the context text is built and the planning call sent
handleUserMessage ==
    /\ hpc = "idle"
    /\ hpc' = "planning"
    /\ UNCHANGED <<steps, cur, outcome, reported, invoked, sx, calls,
                   dispatches, cycles, scenario, inclusions, exclusions, pl, rq, rc, mk, last, globbed, em, budget, disk, includedFiles,
                   excludedFiles, executedCommands, ctx, cf>>

\* a variant without the return on an empty plan: the loop has nothing to do
\* and the summary is posted
PlanReturnsUnguarded ==
    /\ hpc = "planning"
    /\ \E n \in PlanSizes(scenario) : \E lr \in [1..n -> BOOLEAN] :
        /\ steps' = [k \in 1..n |-> [isLongRunning |-> lr[k]]]
        /\ outcome' = [k \in 1..n |-> "none"]
        /\ sx' = [k \in 1..n |->
                    IF k = 1 THEN [NoStep EXCEPT !.pc = "model"] ELSE NoStep]
        /\ calls' = [k \in 1..n |-> NoCalls]
        /\ dispatches' = [k \in 1..n |-> [c \in Cmds |-> 0]]
        /\ cycles' = [k \in 1..n |-> [c \in Cmds |-> 0]]
        /\ IF n = 0
           THEN hpc' = "summary" /\ reported' = 0 /\ UNCHANGED <<cur, invoked>>
           ELSE hpc' = "race" /\ cur' = 1 /\ invoked' = <<1>>
                /\ UNCHANGED reported
    /\ UNCHANGED <<scenario, inclusions, exclusions, pl, rq, rc, mk, last, globbed, em, budget, disk, includedFiles, excludedFiles,
                   executedCommands, ctx, cf>>

\* the plan arrives and stepRegex finds n steps in it
PlanReturns ==
    /\ hpc = "planning"
    /\ \E n \in PlanSizes(scenario) : \E lr \in [1..n -> BOOLEAN] :
        IF n = 0
        THEN /\ hpc' = "nosteps"
             /\ UNCHANGED <<steps, cur, outcome, invoked, sx, calls, dispatches,
                            cycles>>
        ELSE /\ steps' = [k \in 1..n |-> [isLongRunning |-> lr[k]]]
             /\ outcome' = [k \in 1..n |-> "none"]
             /\ cur' = 1
             /\ hpc' = "race"
             /\ sx' = [k \in 1..n |->
                         IF k = 1 THEN [NoStep EXCEPT !.pc = "model"] ELSE NoStep]
             /\ calls' = [k \in 1..n |-> NoCalls]
             /\ dispatches' = [k \in 1..n |-> [c \in Cmds |-> 0]]
             /\ cycles' = [k \in 1..n |-> [c \in Cmds |-> 0]]
             /\ invoked' = <<1>>
    /\ UNCHANGED <<reported, scenario, inclusions, exclusions, pl, rq, rc, mk, last, globbed, em, budget, disk, includedFiles,
                   excludedFiles, executedCommands, ctx, cf>>

\* the planning call throws: the outer catch reports the error
PlanFails ==
    /\ hpc = "planning"
    /\ hpc' = "error"
    /\ UNCHANGED <<steps, cur, outcome, reported, invoked, sx, calls,
                   dispatches, cycles, scenario, inclusions, exclusions, pl, rq, rc, mk, last, globbed, em, budget, disk, includedFiles,
                   excludedFiles, executedCommands, ctx, cf>>

\* a variant of the loop that does not await the race: the step counts as
\* completed as soon as it is invoked
RaceResolvedEarly ==
    /\ hpc = "race"
    /\ outcome' = [outcome EXCEPT ![cur] = "completed"]
    /\ Advance(cur)
    /\ UNCHANGED <<steps, calls, dispatches, cycles, scenario, inclusions, exclusions, pl, rq, rc, mk, last, globbed, em, budget, disk,
                   includedFiles, excludedFiles, executedCommands, ctx, cf>>

\* executeStep resolved first
RaceResolved ==
    /\ hpc = "race"
    /\ sx[cur].pc = "done"
    /\ outcome' = [outcome EXCEPT ![cur] = "completed"]
    /\ Advance(cur)
    /\ UNCHANGED <<steps, calls, dispatches, cycles, scenario, inclusions, exclusions, pl, rq, rc, mk, last, globbed, em, budget, disk,
                   includedFiles, excludedFiles, executedCommands, ctx, cf>>

\* a variant of the catch that treats the timeout like any other error
RaceTimeoutRecovers ==
    /\ hpc = "race"
    /\ sx[cur].pc \notin {"done", "threw"}
    /\ outcome' = [outcome EXCEPT ![cur] = "timeout"]
    /\ hpc' = "steperr"
    /\ UNCHANGED <<steps, cur, reported, invoked, sx, calls, dispatches, cycles,
                   scenario, inclusions, exclusions, pl, rq, rc, mk, last, globbed, em, budget, disk, includedFiles, excludedFiles,
                   executedCommands, ctx, cf>>

\* the 60 s timer rejected first: the step is left running and the loop
\* continues
RaceTimeout ==
    /\ hpc = "race"
    /\ sx[cur].pc \notin {"done", "threw"}
    /\ outcome' = [outcome EXCEPT ![cur] = "timeout"]
    /\ Advance(cur)
    /\ UNCHANGED <<steps, calls, dispatches, cycles, scenario, inclusions, exclusions, pl, rq, rc, mk, last, globbed, em, budget, disk,
                   includedFiles, excludedFiles, executedCommands, ctx, cf>>

\* executeStep rejected first: handleStepError asks the model
RaceRejected ==
    /\ hpc = "race"
    /\ sx[cur].pc = "threw"
    /\ outcome' = [outcome EXCEPT ![cur] = "failed"]
    /\ hpc' = "steperr"
    /\ UNCHANGED <<steps, cur, reported, invoked, sx, calls, dispatches, cycles,
                   scenario, inclusions, exclusions, pl, rq, rc, mk, last, globbed, em, budget, disk, includedFiles, excludedFiles,
                   executedCommands, ctx, cf>>

\* handleStepError returns
StepErrorReturns ==
    /\ hpc = "steperr"
    /\ IF handleStepError
       THEN Advance(cur)
       ELSE /\ hpc' = "asked"
            /\ UNCHANGED <<cur, reported, invoked, sx>>
    /\ UNCHANGED <<steps, outcome, calls, dispatches, cycles, scenario, inclusions, exclusions, pl, rq, rc, mk, last, globbed, em, budget,
                   disk, includedFiles, excludedFiles, executedCommands, ctx, cf>>

---------------------------------------------------------------------------
(* executeStep, one activation per step k.                                 *)
(*   sx[k].pc: "none" (not invoked), "model" (the implementation call is   *)
(*   out), "run" (between two operations of the files loop and the         *)
(*   commands loop), "wait" (awaiting executeCommandWithRetry),            *)
(*   "done" (returned), "threw" (err tells what was thrown).               *)
(*   files, cmds: the file blocks and command lines not yet handled.       *)
(*   tolerated: history, the commands that resolved false and were passed  *)
(*   over.                                                                 *)

\* a variant of the commands loop that does not wait for the files loop
CommandsMayStartAnyTime(s) == TRUE

\* SECOND: only after ALL files are created, execute commands
CommandsMayStart(s) == s.files = <<>>

\* a variant of the catch that notes the error and goes on with the next file
AfterFileErrorSkips(s) == [s EXCEPT !.files = Tail(@), !.err = "file"]

\* the catch of the files loop rethrows: the step is over
AfterFileError(s) == [s EXCEPT !.pc = "threw", !.err = "file"]

\* the implementation arrives: fileRegex and commandRegex take it apart
ExecStepModelReturns(k) ==
    /\ sx[k].pc = "model"
    /\ \E fl \in StepFileLists(scenario) : \E cl \in StepCmdLists(scenario) :
        sx' = [sx EXCEPT ![k].pc = "run", ![k].files = fl, ![k].cmds = cl]
    /\ UNCHANGED <<hpc, steps, cur, outcome, reported, invoked, calls,
                   dispatches, cycles, scenario, inclusions, exclusions, pl, rq, rc, mk, last, globbed, em, budget, disk, includedFiles,
                   excludedFiles, executedCommands, ctx, cf>>

\* the implementation call throws, and so does executeStep
ExecStepModelFails(k) ==
    /\ sx[k].pc = "model"
    /\ sx' = [sx EXCEPT ![k].pc = "threw", ![k].err = "model"]
    /\ UNCHANGED <<hpc, steps, cur, outcome, reported, invoked, calls,
                   dispatches, cycles, scenario, inclusions, exclusions, pl, rq, rc, mk, last, globbed, em, budget, disk, includedFiles,
                   excludedFiles, executedCommands, ctx, cf>>

\* one turn of the files loop: createFile(file.path, file.content)
ExecStepFile(k) ==
    /\ sx[k].pc = "run"
    /\ sx[k].files # <<>>
    /\ LET f == Head(sx[k].files)
           r == createFile(disk, includedFiles, excludedFiles, f.path,
                           Trim(f.content))
       IN  /\ disk' = r.disk
           /\ includedFiles' = r.inc
           /\ excludedFiles' = r.exc
           /\ sx' = [sx EXCEPT ![k] = IF r.ok THEN [@ EXCEPT !.files = Tail(@)]
                                      ELSE AfterFileError(@)]
    /\ UNCHANGED <<hpc, steps, cur, outcome, reported, invoked, calls,
                   dispatches, cycles, scenario, inclusions, exclusions, pl, rq, rc, mk, last, globbed, em, budget, executedCommands, ctx, cf>>

---------------------------------------------------------------------------
(* executeCommandWithRetry and handleCommandFailure.                       *)
(*   calls[k] holds the calls of executeCommandWithRetry that step k has   *)
(*   not yet seen the result of, as a tree: the call made by executeStep   *)
(*   is at Root, the calls made by the handleCommandFailure of the call at *)
(*   f are at f \o <<1>>, f \o <<2>>, ... in the order of the recovery     *)
(*   plan.  A frame is                                                     *)
(*     cmd     the command                                                 *)
(*     st      "open" (the terminal runs), "analysis" (the exit code was   *)
(*             not 0: handleCommandFailure was called and its model call   *)
(*             is out), "waiting" (handleCommandFailure awaits Promise.all *)
(*             of its recovery commands), "resolved"                       *)
(*     ok      the value the promise resolved with                         *)
(*     failed  handleCommandFailure was called for it                      *)
(*     rs      recoverySuccessful after the edits and the file blocks      *)
(*     applied the files that handleCommandFailure wrote                   *)
(*     anyOk   a recovery command resolved true                            *)
(*     err     "analysis" when the analysis call of handleCommandFailure   *)
(*             threw, "none" otherwise                                     *)
(*   The frames of the recovery commands go when Promise.all has resolved, *)
(*   the frame at Root when executeStep has taken its result.              *)
(*   dispatches[k][c] and cycles[k][c] are history: how often c was sent   *)
(*   to a terminal, and how often handleCommandFailure was called for c,   *)
(*   since the current command of step k was started.                      *)

Root == <<1>>

Children(t, f) ==
    {c \in DOMAIN t : Len(c) = Len(f) + 1 /\ SubSeq(c, 1, Len(f)) = f}

\* a variant that awaits the terminal of every command
NewCallAwaited(cmd) ==
    [cmd |-> cmd, st |-> "open", ok |-> FALSE,
     failed |-> FALSE, rs |-> FALSE, applied |-> 0, anyOk |-> FALSE,
     err |-> "none"]

\* executeCommandWithRetry(command) up to its return of the promise: the
\* terminal is created and the command sent; a long-running command has
\* resolved true by then
NewCall(cmd) ==
    [cmd |-> cmd,
     st |-> IF isLongRunningCommand(cmd) THEN "resolved" ELSE "open",
     ok |-> isLongRunningCommand(cmd),
     failed |-> FALSE, rs |-> FALSE, applied |-> 0, anyOk |-> FALSE,
     err |-> "none"]

\* recoveryCommands.filter(cmd => !this.executedCommands.has(cmd))
NewCommands(recoveryCommands, executed) ==
    SelectSeq(recoveryCommands, LAMBDA cmd : cmd \notin executed)

\* the count of cmd in a list of commands
RECURSIVE Occurrences(_, _)
Occurrences(cl, cmd) ==
    IF cl = <<>> THEN 0
    ELSE (IF Head(cl) = cmd THEN 1 ELSE 0) + Occurrences(Tail(cl), cmd)

\* one turn of the commands loop: executeCommandWithRetry(command) is called
ExecStepCommand(k) ==
    /\ sx[k].pc = "run"
    /\ CommandsMayStart(sx[k])
    /\ sx[k].cmds # <<>>
    /\ LET command == Head(sx[k].cmds)
       IN  /\ calls' = [calls EXCEPT ![k] = Root :> NewCall(command)]
           /\ dispatches' = [dispatches EXCEPT ![k] =
                               [c \in Cmds |-> IF c = command THEN 1 ELSE 0]]
    /\ cycles' = [cycles EXCEPT ![k] = [c \in Cmds |-> 0]]
    /\ sx' = [sx EXCEPT ![k].pc = "wait"]
    /\ UNCHANGED <<hpc, steps, cur, outcome, reported, invoked, scenario, inclusions, exclusions, pl, rq, rc, mk, last, globbed, em,
                   budget, disk, includedFiles, excludedFiles,
                   executedCommands, ctx, cf>>

\* a variant of the commands loop that does not await the command: it goes
\* on as soon as the command is sent
ExecStepCommandNotAwaited(k) ==
    /\ sx[k].pc = "wait"
    /\ sx' = [sx EXCEPT ![k].pc = "run", ![k].cmds = Tail(@)]
    /\ calls' = [calls EXCEPT ![k] = NoCalls]
    /\ UNCHANGED <<hpc, steps, cur, outcome, reported, invoked, dispatches,
                   cycles, scenario, inclusions, exclusions, pl, rq, rc, mk, last, globbed, em, budget, disk, includedFiles,
                   excludedFiles, executedCommands, ctx, cf>>

\* a variant of the commands loop in which a failed command ends any step
ExecStepCommandResolvedStrict(k) ==
    /\ sx[k].pc = "wait"
    /\ calls[k][Root].st = "resolved"
    /\ sx' = [sx EXCEPT ![k] =
                IF ~calls[k][Root].ok
                THEN [@ EXCEPT !.pc = "threw", !.err = "command"]
                ELSE [@ EXCEPT !.pc = "run", !.cmds = Tail(@)]]
    /\ calls' = [calls EXCEPT ![k] = NoCalls]
    /\ UNCHANGED <<hpc, steps, cur, outcome, reported, invoked, dispatches,
                   cycles, scenario, inclusions, exclusions, pl, rq, rc, mk, last, globbed, em, budget, disk, includedFiles,
                   excludedFiles, executedCommands, ctx, cf>>

\* executeCommandWithRetry has resolved: a failure ends a regular step
ExecStepCommandResolved(k) ==
    /\ sx[k].pc = "wait"
    /\ calls[k][Root].st = "resolved"
    /\ sx' = [sx EXCEPT ![k] =
                IF ~calls[k][Root].ok /\ ~steps[k].isLongRunning
                THEN [@ EXCEPT !.pc = "threw", !.err = "command"]
                ELSE [@ EXCEPT !.pc = "run", !.cmds = Tail(@),
                               !.tolerated = IF calls[k][Root].ok THEN @
                                             ELSE @ + 1]]
    /\ calls' = [calls EXCEPT ![k] = NoCalls]
    /\ UNCHANGED <<hpc, steps, cur, outcome, reported, invoked, dispatches,
                   cycles, scenario, inclusions, exclusions, pl, rq, rc, mk, last, globbed, em, budget, disk, includedFiles,
                   excludedFiles, executedCommands, ctx, cf>>

\* nothing is left to do: executeStep returns
ExecStepReturns(k) ==
    /\ sx[k].pc = "run"
    /\ sx[k].files = <<>>
    /\ sx[k].cmds = <<>>
    /\ sx' = [sx EXCEPT ![k].pc = "done"]
    /\ UNCHANGED <<hpc, steps, cur, outcome, reported, invoked, calls,
                   dispatches, cycles, scenario, inclusions, exclusions, pl, rq, rc, mk, last, globbed, em, budget, disk, includedFiles,
                   excludedFiles, executedCommands, ctx, cf>>

\* onDidCloseTerminal: the exit code is read back; anything but 0 calls
\* handleCommandFailure
CloseTerminal(k, f) ==
    /\ calls[k][f].st = "open"
    /\ \E actualExitCode \in ExitCodes(calls[k][f].cmd) :
        IF actualExitCode = 0
        THEN /\ calls' = [calls EXCEPT ![k][f].st = "resolved",
                                       ![k][f].ok = TRUE]
             /\ UNCHANGED cycles
        ELSE /\ calls' = [calls EXCEPT ![k][f].st = "analysis",
                                       ![k][f].failed = TRUE]
             /\ cycles' = [cycles EXCEPT ![k][calls[k][f].cmd] = @ + 1]
    /\ UNCHANGED <<hpc, steps, cur, outcome, reported, invoked, sx,
                   dispatches, scenario, inclusions, exclusions, pl, rq, rc, mk, last, globbed, em, budget, disk, includedFiles,
                   excludedFiles, executedCommands, ctx, cf>>

\* the analysis arrives: edits, then new files, then the recovery commands
RecoveryAnalysisReturns(k, f) ==
    /\ calls[k][f].st = "analysis"
    /\ \E a \in RecoveryAnswers :
        LET e == processEdits(disk, a.edits)
            p == processFileCreationMarkers(e.disk, includedFiles,
                                            excludedFiles, a.files)
            recoverySuccessful == e.rs \/ p.ok
            recoveryCommands == a.cmds
            newCommands == NewCommands(recoveryCommands, executedCommands)
            noted == [calls[k] EXCEPT ![f].rs = recoverySuccessful,
                                      ![f].applied = e.n + p.n]
        IN  /\ Len(recoveryCommands) <= budget
            /\ budget' = budget - Len(recoveryCommands)
            /\ disk' = p.disk
            /\ includedFiles' = p.inc
            /\ excludedFiles' = p.exc
            /\ IF recoveryCommands = <<>>
               THEN /\ calls' = [calls EXCEPT ![k] =
                                   [noted EXCEPT ![f].st = "resolved",
                                                 ![f].ok = recoverySuccessful]]
                    /\ UNCHANGED dispatches
               ELSE IF newCommands = <<>>
               THEN /\ calls' = [calls EXCEPT ![k] =
                                   [noted EXCEPT ![f].st = "resolved",
                                                 ![f].ok = FALSE]]
                    /\ UNCHANGED dispatches
               ELSE /\ calls' = [calls EXCEPT ![k] =
                                   [noted EXCEPT ![f].st = "waiting"]
                                   @@ [c \in {f \o <<j>> :
                                                j \in 1..Len(newCommands)} |->
                                         NewCall(newCommands[c[Len(c)]])]]
                    /\ dispatches' = [dispatches EXCEPT ![k] =
                                        [c \in Cmds |->
                                           @[c] + Occurrences(newCommands, c)]]
    /\ UNCHANGED <<hpc, steps, cur, outcome, reported, invoked, sx, cycles,
                   scenario, inclusions, exclusions, pl, rq, rc, mk, last, globbed, em, executedCommands, ctx, cf>>

\* a variant of handleCommandFailure without its try and catch: the error of
\* the analysis call reaches executeStep
RecoveryAnalysisFailsRaises(k, f) ==
    /\ calls[k][f].st = "analysis"
    /\ calls' = [calls EXCEPT ![k] = NoCalls]
    /\ sx' = [sx EXCEPT ![k].pc = "threw", ![k].err = "model"]
    /\ UNCHANGED <<hpc, steps, cur, outcome, reported, invoked,
                   dispatches, cycles, scenario, inclusions, exclusions, pl, rq, rc, mk, last,
                   globbed, em, budget, disk, includedFiles,
                   excludedFiles, executedCommands, ctx, cf>>

\* the analysis call throws: the catch returns false
RecoveryAnalysisFails(k, f) ==
    /\ calls[k][f].st = "analysis"
    /\ calls' = [calls EXCEPT ![k][f].st = "resolved", ![k][f].ok = FALSE,
                              ![k][f].err = "analysis"]
    /\ UNCHANGED <<hpc, steps, cur, outcome, reported, invoked, sx,
                   dispatches, cycles, scenario, inclusions, exclusions, pl, rq, rc, mk, last,
                   globbed, em, budget, disk, includedFiles,
                   excludedFiles, executedCommands, ctx, cf>>

\* a variant that judges as soon as the first recovery command has resolved
RecoveryCommandsFirstResolved(k, f) ==
    /\ calls[k][f].st = "waiting"
    /\ \E c \in Children(calls[k], f) : calls[k][c].st = "resolved"
    /\ LET t == calls[k]
           anyOk == \E c \in Children(t, f) : t[c].ok
           recoverySuccessful == t[f].rs \/ anyOk
           kept == {c \in DOMAIN t :
                      ~(Len(c) > Len(f) /\ SubSeq(c, 1, Len(f)) = f)}
       IN  calls' = [calls EXCEPT ![k] =
                       [c \in kept |->
                          IF c = f
                          THEN [t[f] EXCEPT !.st = "resolved",
                                            !.ok = recoverySuccessful,
                                            !.anyOk = anyOk]
                          ELSE t[c]]]
    /\ UNCHANGED <<hpc, steps, cur, outcome, reported, invoked, sx,
                   dispatches, cycles, scenario, inclusions, exclusions, pl, rq, rc, mk, last, globbed, em, budget, disk, includedFiles,
                   excludedFiles, executedCommands, ctx, cf>>

\* Promise.all resolves, every recovery command having resolved:
\* handleCommandFailure returns and its caller resolves with its value
RecoveryCommandsResolved(k, f) ==
    /\ calls[k][f].st = "waiting"
    /\ \A c \in Children(calls[k], f) : calls[k][c].st = "resolved"
    /\ LET t == calls[k]
           anyOk == \E c \in Children(t, f) : t[c].ok
           recoverySuccessful == t[f].rs \/ anyOk
           kept == DOMAIN t \ Children(t, f)
       IN  calls' = [calls EXCEPT ![k] =
                       [c \in kept |->
                          IF c = f
                          THEN [t[f] EXCEPT !.st = "resolved",
                                            !.ok = recoverySuccessful,
                                            !.anyOk = anyOk]
                          ELSE t[c]]]
    /\ UNCHANGED <<hpc, steps, cur, outcome, reported, invoked, sx,
                   dispatches, cycles, scenario, inclusions, exclusions, pl, rq, rc, mk, last, globbed, em, budget, disk, includedFiles,
                   excludedFiles, executedCommands, ctx, cf>>

---------------------------------------------------------------------------

Next ==
    \/ handleUserMessage
    \/ PlanReturns
    \/ PlanFails
    \/ RaceResolved
    \/ RaceTimeout
    \/ RaceRejected
    \/ StepErrorReturns
    \/ \E k \in 1..Len(steps) :
        \/ ExecStepModelReturns(k)
        \/ ExecStepModelFails(k)
        \/ ExecStepFile(k)
        \/ ExecStepCommand(k)
        \/ ExecStepCommandResolved(k)
        \/ ExecStepReturns(k)
        \/ \E f \in DOMAIN calls[k] :
            \/ CloseTerminal(k, f)
            \/ RecoveryAnalysisReturns(k, f)
            \/ RecoveryAnalysisFails(k, f)
            \/ RecoveryCommandsResolved(k, f)

Spec == Init /\ [][Next]_vars


---------------------------------------------------------------------------
(* createFile and the ContextManager on their own.                         *)
(*   createFile is an async function: between its awaits other callbacks   *)
(*   run, among them another createFile (of a step that timed out and goes *)
(*   on in the background, or of the handleCommandFailure of two recovery  *)
(*   commands that failed) and the handlers of the file view, which call   *)
(*   includeFile and excludeFile.  SpecFiles has up to MaxWriters calls of *)
(*   createFile, each cut at its awaits, the file view's handlers and the  *)
(*   updateContext that the constructor started.  Spec takes createFile as *)
(*   one operation.                                                        *)
(*   cf[w].pc: "idle", "read" (the file exists, readFile is out), "checked"*)
(*   (the veto is passed, mkdir and writeFile are out), "written"          *)
(*   (writeFile has resolved), "included" (includeFile went through, the   *)
(*   editor is asked to open the file), "done", "threw" (err: "NotLonger", *)
(*   "Capacity", "Open").  over is what the write replaced.                *)

\* what createFile is called with
WriterInputs ==
    { <<"a.txt", <<"x">> >>, <<"a.txt", <<"x", "y">> >>, <<"c.txt", <<"x">> >> }

\* the workspaces the extension may be activated on
InitialWorkspaces ==
    { [p \in Paths |-> NoFile],
      [p \in Paths |-> IF p = "b.txt" THEN <<"x">> ELSE NoFile] }

InitFiles ==
    /\ hpc = "idle"
    /\ steps = <<>>
    /\ cur = 0
    /\ outcome = <<>>
    /\ reported = -1
    /\ invoked = <<>>
    /\ sx = <<>>
    /\ calls = <<>>
    /\ dispatches = <<>>
    /\ cycles = <<>>
    /\ scenario = "files"
    /\ budget = 0
    /\ disk \in InitialWorkspaces
    /\ includedFiles = {}
    /\ excludedFiles = {}
    /\ executedCommands = {}
    /\ ctx = "globbing"
    /\ cf = [w \in 1..MaxWriters |-> NoWriter]
    /\ inclusions = {CodeFiles}
    /\ exclusions = InDirectory
    /\ globbed = <<>>
    /\ em = NoEdits
    /\ last = NoOp
    /\ pl = NoPipeline
    /\ rq = NoRequests
    /\ rc = NoRetry
    /\ mk = NoMarkers

\* the newLength <= existingLength test of createFile
NotLonger(content, existing) == Length(Trim(content)) <= Length(Trim(existing))

\* createFile is called: existsSync, then readFile or mkdir is awaited
CreateFileCalled(w) ==
    /\ cf[w].pc = "idle"
    /\ \E in \in WriterInputs :
        cf' = [cf EXCEPT ![w] =
                 [NoWriter EXCEPT !.path = in[1], !.content = in[2],
                                  !.pc = IF disk[in[1]] # NoFile THEN "read"
                                         ELSE "checked"]]
    /\ UNCHANGED <<hpc, steps, cur, outcome, reported, invoked, sx, calls,
                   dispatches, cycles, scenario, inclusions, exclusions, pl, rq, rc, mk, last, globbed, em, budget, disk, includedFiles,
                   excludedFiles, executedCommands, ctx>>

\* readFile resolves: the veto
CreateFileRead(w) ==
    /\ cf[w].pc = "read"
    /\ cf' = [cf EXCEPT ![w] =
                IF NotLonger(@.content, disk[@.path])
                THEN [@ EXCEPT !.pc = "threw", !.err = "NotLonger"]
                ELSE [@ EXCEPT !.pc = "checked"]]
    /\ UNCHANGED <<hpc, steps, cur, outcome, reported, invoked, sx, calls,
                   dispatches, cycles, scenario, inclusions, exclusions, pl, rq, rc, mk, last, globbed, em, budget, disk, includedFiles,
                   excludedFiles, executedCommands, ctx>>

\* mkdir has resolved and writeFile writes
CreateFileWrites(w) ==
    /\ cf[w].pc = "checked"
    /\ disk' = [disk EXCEPT ![cf[w].path] = cf[w].content]
    /\ cf' = [cf EXCEPT ![w].pc = "written", ![w].over = disk[cf[w].path]]
    /\ UNCHANGED <<hpc, steps, cur, outcome, reported, invoked, sx, calls,
                   dispatches, cycles, scenario, inclusions, exclusions, pl, rq, rc, mk, last, globbed, em, budget, includedFiles,
                   excludedFiles, executedCommands, ctx>>

\* writeFile has resolved: contextManager.includeFile(filePath)
CreateFileIncludes(w) ==
    /\ cf[w].pc = "written"
    /\ LET r == includeFile(includedFiles, excludedFiles, cf[w].path)
       IN  /\ includedFiles' = r.inc
           /\ excludedFiles' = r.exc
           /\ cf' = [cf EXCEPT ![w] =
                       IF r.ok THEN [@ EXCEPT !.pc = "included"]
                       ELSE [@ EXCEPT !.pc = "threw", !.err = "Capacity"]]
    /\ UNCHANGED <<hpc, steps, cur, outcome, reported, invoked, sx, calls,
                   dispatches, cycles, scenario, inclusions, exclusions, pl, rq, rc, mk, last, globbed, em, budget, disk,
                   executedCommands, ctx>>

\* the editor has opened the file and the file view is refreshed: createFile
\* returns
CreateFileReturns(w) ==
    /\ cf[w].pc = "included"
    /\ cf' = [cf EXCEPT ![w].pc = "done"]
    /\ UNCHANGED <<hpc, steps, cur, outcome, reported, invoked, sx, calls,
                   dispatches, cycles, scenario, inclusions, exclusions, pl, rq, rc, mk, last, globbed, em, budget, disk, includedFiles,
                   excludedFiles, executedCommands, ctx>>

\* openTextDocument or showTextDocument throws: the catch rethrows
CreateFileOpenFails(w) ==
    /\ cf[w].pc = "included"
    /\ cf' = [cf EXCEPT ![w].pc = "threw", ![w].err = "Open"]
    /\ UNCHANGED <<hpc, steps, cur, outcome, reported, invoked, sx, calls,
                   dispatches, cycles, scenario, inclusions, exclusions, pl, rq, rc, mk, last, globbed, em, budget, disk, includedFiles,
                   excludedFiles, executedCommands, ctx>>

\* glob resolves in the updateContext of the constructor
UpdateContextReturns ==
    /\ ctx = "globbing"
    /\ ctx' = "ready"
    /\ \E files \in glob({p \in DOMAIN disk : disk[p] # NoFile}, exclusions) :
        /\ globbed' = files
        /\ includedFiles' = updateContext(files, inclusions, exclusions)
    /\ excludedFiles' = {}
    /\ UNCHANGED <<hpc, steps, cur, outcome, reported, invoked, sx, calls,
                   dispatches, cycles, scenario, inclusions, exclusions, pl, rq, rc, mk, last, em,
                   budget, disk, executedCommands, cf>>

\* the file view's toggleFile and toggleDirectory, the include command: a
\* capacity error is shown to the user and nothing changes
UserIncludeFile(p) ==
    /\ LET r == includeFile(includedFiles, excludedFiles, p)
       IN  includedFiles' = r.inc /\ excludedFiles' = r.exc
    /\ UNCHANGED <<hpc, steps, cur, outcome, reported, invoked, sx, calls,
                   dispatches, cycles, scenario, inclusions, exclusions, pl, rq, rc, mk, last, globbed, em, budget, disk,
                   executedCommands, ctx, cf>>

\* the file view's toggleFile and toggleDirectory, the exclude command
UserExcludeFile(p) ==
    /\ LET r == excludeFile(includedFiles, excludedFiles, p)
       IN  includedFiles' = r.inc /\ excludedFiles' = r.exc
    /\ UNCHANGED <<hpc, steps, cur, outcome, reported, invoked, sx, calls,
                   dispatches, cycles, scenario, inclusions, exclusions, pl, rq, rc, mk, last, globbed, em, budget, disk,
                   executedCommands, ctx, cf>>

\* removeFromContext, which ContextManager offers and nothing calls
UserRemoveFromContext(p) ==
    /\ LET r == removeFromContext(includedFiles, excludedFiles, p)
       IN  includedFiles' = r.inc /\ excludedFiles' = r.exc
    /\ UNCHANGED <<hpc, steps, cur, outcome, reported, invoked, sx, calls,
                   dispatches, cycles, scenario, inclusions, exclusions, pl, rq, rc, mk, last, globbed, em, budget, disk,
                   executedCommands, ctx, cf>>

NextFiles ==
    \/ UpdateContextReturns
    \/ \E p \in Paths :
        \/ UserIncludeFile(p)
        \/ UserExcludeFile(p)
        \/ UserRemoveFromContext(p)
    \/ \E w \in 1..MaxWriters :
        \/ CreateFileCalled(w)
        \/ CreateFileRead(w)
        \/ CreateFileWrites(w)
        \/ CreateFileIncludes(w)
        \/ CreateFileReturns(w)
        \/ CreateFileOpenFails(w)

SpecFiles == InitFiles /\ [][NextFiles]_vars

---------------------------------------------------------------------------
(* SpecContext: the rebuild of the context on its own.  The extension is   *)
(* activated on a workspace with some of ContextPaths and one of the       *)
(* settings; the constructor of ContextManager starts updateContext, which *)
(* awaits glob, and the file view's handlers may run before and after.     *)

InitContext ==
    /\ hpc = "idle"
    /\ steps = <<>>
    /\ cur = 0
    /\ outcome = <<>>
    /\ reported = -1
    /\ invoked = <<>>
    /\ sx = <<>>
    /\ calls = <<>>
    /\ dispatches = <<>>
    /\ cycles = <<>>
    /\ scenario = "context"
    /\ budget = 0
    /\ disk \in [ContextPaths -> {NoFile, <<"x">>}]
    /\ includedFiles = {}
    /\ excludedFiles = {}
    /\ executedCommands = {}
    /\ ctx = "globbing"
    /\ cf = [w \in 1..MaxWriters |-> NoWriter]
    /\ \E settings \in ContextSettings :
        /\ inclusions = settings.inclusions
        /\ exclusions = settings.exclusions
    /\ globbed = <<>>
    /\ em = NoEdits
    /\ last = NoOp
    /\ pl = NoPipeline
    /\ rq = NoRequests
    /\ rc = NoRetry
    /\ mk = NoMarkers

NextContext ==
    \/ UpdateContextReturns
    \/ \E p \in {q \in ContextPaths : disk[q] # NoFile} :
        \/ UserIncludeFile(p)
        \/ UserExcludeFile(p)

SpecContext == InitContext /\ [][NextContext]_vars

---------------------------------------------------------------------------
(* SpecEdits: EditManager.processEditMarkers on its own.  executeStep      *)
(* calls it with the implementation that the model wrote for a step, and   *)
(* again with the next one when the result was no success; the texts are   *)
(* drawn from EditTexts.  Nothing else writes the workspace meanwhile, so  *)
(* one turn of its loop is one action.                                     *)

Header(marker, range) == <<marker, "a.txt", "fix", range>>
Block(marker, range, body) ==
    <<Header(marker, range)>> \o body \o << <<END_BLOCK>> >>
Rewrite(body) ==
    << <<REWRITE_FILE, "a.txt", "new">> >> \o body \o << <<END_BLOCK>> >>

LineRanges == {"0", "1", "2", "9", "x", "1-2", "2-3", "5-3", "2-9", "5-7"}
Bodies == {<<>>, << <<"n">> >>}
RewriteBodies == {<<>>, << <<"n">> >>, << <<"">>, <<"n">>, <<"m">>, <<"">> >>}

\* the texts: one block of every kind, range and body; two blocks, the first
\* of them with an inverted range; a block of two lines; a header that is
\* too short, a header without a file, a block that is not closed
EditTexts ==
    {Block(marker, range, body) :
        marker \in {REPLACE_BLOCK, ADD_BLOCK, DELETE_BLOCK},
        range \in LineRanges, body \in Bodies}
    \cup {Rewrite(body) : body \in RewriteBodies}
    \cup { Block(REPLACE_BLOCK, "5-3", << <<"n">> >>)
               \o Block(ADD_BLOCK, "1", << <<"m">> >>),
           Block(DELETE_BLOCK, "5-3", << <<"n">> >>)
               \o Block(REPLACE_BLOCK, "1", << <<"m">> >>),
           Block(DELETE_BLOCK, "5-3", <<>>) \o Rewrite(<< <<"m">> >>),
           Block(ADD_BLOCK, "2", << <<"n">>, <<"m">> >>),
           Block(REPLACE_BLOCK, "1-2", << <<"n">>, <<"">>, <<"m">> >>),
           << <<REPLACE_BLOCK, "a.txt">>, <<"n">>, <<END_BLOCK>> >>,
           << <<REPLACE_BLOCK, "", "fix", "1">>, <<"n">>, <<END_BLOCK>> >>,
           << Header(ADD_BLOCK, "1"), <<"n">> >> }

\* the workspaces: a.txt is missing, has one line or three
EditWorkspaces ==
    { [p \in Paths |-> IF p = "a.txt" THEN c ELSE NoFile] :
        c \in {NoFile, <<"p">>, <<"p", "q", "r">>} }

InitEdits ==
    /\ hpc = "idle"
    /\ steps = <<>>
    /\ cur = 0
    /\ outcome = <<>>
    /\ reported = -1
    /\ invoked = <<>>
    /\ sx = <<>>
    /\ calls = <<>>
    /\ dispatches = <<>>
    /\ cycles = <<>>
    /\ scenario = "edits"
    /\ budget = 0
    /\ disk \in EditWorkspaces
    /\ includedFiles = {}
    /\ excludedFiles = {}
    /\ executedCommands = {}
    /\ ctx = "ready"
    /\ cf = [w \in 1..MaxWriters |-> NoWriter]
    /\ inclusions = {CodeFiles}
    /\ exclusions = InDirectory
    /\ globbed = <<>>
    /\ em = NoEdits
    /\ last = NoOp
    /\ pl = NoPipeline
    /\ rq = NoRequests
    /\ rc = NoRetry
    /\ mk = NoMarkers

\* processEditMarkers(text) is called: parseEditBlocks
ProcessEditMarkersCalled ==
    /\ em.pc = "idle"
    /\ Len(em.done) < MaxEditCalls
    /\ \E text \in EditTexts :
        em' = [em EXCEPT !.pc = "loop", !.text = text, !.entry = disk,
                         !.blocks = parseEditBlocks(text),
                         !.errors = <<>>, !.last = NoTurn]
    /\ UNCHANGED <<hpc, steps, cur, outcome, reported, invoked, sx, calls,
                   dispatches, cycles, scenario, inclusions, exclusions, pl, rq, rc, mk, last,
                   globbed, budget, disk, includedFiles, excludedFiles,
                   executedCommands, ctx, cf>>

\* one turn of the loop of processEditMarkers
EditBlockApplied ==
    /\ em.pc = "loop"
    /\ em.blocks # <<>>
    /\ LET edit == Head(em.blocks)
           r == applyEdit(disk, edit)
       IN  /\ disk' = r.disk
           /\ em' = [em EXCEPT
                       !.blocks = Tail(@),
                       !.errors = IF r.ok THEN @ ELSE Append(@, r.error),
                       !.last = [edit |-> edit, ok |-> r.ok,
                                 before |-> IF edit.file \in DOMAIN disk
                                            THEN disk[edit.file] ELSE NoFile,
                                 after |-> IF edit.file \in DOMAIN disk
                                           THEN r.disk[edit.file] ELSE NoFile,
                                 startLine |-> r.startLine,
                                 endLine |-> r.endLine]]
    /\ UNCHANGED <<hpc, steps, cur, outcome, reported, invoked, sx, calls,
                   dispatches, cycles, scenario, inclusions, exclusions, pl, rq, rc, mk, last,
                   globbed, budget, includedFiles, excludedFiles,
                   executedCommands, ctx, cf>>

\* the loop is over: processEditMarkers returns success and the errors
ProcessEditMarkersReturns ==
    /\ em.pc = "loop"
    /\ em.blocks = <<>>
    /\ em' = [em EXCEPT !.pc = "idle",
                        !.done = Append(@, [text |-> em.text,
                                            success |-> em.errors = <<>>,
                                            errors |-> em.errors,
                                            before |-> em.entry,
                                            disk |-> disk])]
    /\ UNCHANGED <<hpc, steps, cur, outcome, reported, invoked, sx, calls,
                   dispatches, cycles, scenario, inclusions, exclusions, pl, rq, rc, mk, last,
                   globbed, budget, disk, includedFiles, excludedFiles,
                   executedCommands, ctx, cf>>

NextEdits ==
    \/ ProcessEditMarkersCalled
    \/ EditBlockApplied
    \/ ProcessEditMarkersReturns

SpecEdits == InitEdits /\ [][NextEdits]_vars

---------------------------------------------------------------------------
(* SpecBlocks: what a file block and an edit of the model's answer do to   *)
(* the workspace.  executeStep writes the file blocks of a step's          *)
(* implementation, handleCommandFailure gives the edits of a recovery plan *)
(* to editFileBlock and its file blocks to processFileCreationMarkers; the *)
(* blocks and edits are drawn from BlockInputs and EditInputs.  A line     *)
(* ''' or '''ts is a code fence.                                           *)

\* the bodies of the file blocks, match[2] of the fileRegex: plain, with
\* blank lines around, in a code fence, with a fenced example in the middle
BlockBodies ==
    { <<"x">>,
      <<"", "x", "y", "">>,
      <<"'''ts", "x", "y", "'''">>,
      <<"'''", "x", "y", "z", "'''", "">>,
      <<"x", "'''", "y", "'''", "z", "w">> }

BlockInputs == [path : {"a.txt", "b.txt"}, content : BlockBodies]

EditInputs ==
    [file : {"a.txt"}, id : {""}, line : {1, 2}, code : {"x", "y"}]
    \cup [file : {"a.txt"}, id : {"A"}, line : {0}, code : {"x", "y"}]

BlockWorkspaces ==
    { [p \in Paths |-> IF p = "a.txt" THEN c ELSE NoFile] :
        c \in {NoFile, <<"x">>, <<"// BEGIN A", "x", "// END A">>,
               <<"// BEGIN A", "x", "// END A", "// BEGIN A", "y", "// END A">>} }

InitBlocks ==
    /\ hpc = "idle"
    /\ steps = <<>>
    /\ cur = 0
    /\ outcome = <<>>
    /\ reported = -1
    /\ invoked = <<>>
    /\ sx = <<>>
    /\ calls = <<>>
    /\ dispatches = <<>>
    /\ cycles = <<>>
    /\ scenario = "blocks"
    /\ budget = 0
    /\ disk \in BlockWorkspaces
    /\ includedFiles = {}
    /\ excludedFiles = {}
    /\ executedCommands = {}
    /\ ctx = "ready"
    /\ cf = [w \in 1..MaxWriters |-> NoWriter]
    /\ inclusions = {CodeFiles}
    /\ exclusions = InDirectory
    /\ globbed = <<>>
    /\ em = NoEdits
    /\ last = NoOp
    /\ pl = NoPipeline
    /\ rq = NoRequests
    /\ rc = NoRetry
    /\ mk = NoMarkers

\* executeStep: a file block of the implementation, content: match[2].trim()
StepCreatesFile ==
    /\ \E b \in BlockInputs :
        LET r == createFile(disk, includedFiles, excludedFiles, b.path,
                            Trim(b.content))
        IN  /\ disk' = r.disk
            /\ includedFiles' = r.inc
            /\ excludedFiles' = r.exc
            /\ last' = [NoOp EXCEPT !.kind = "step", !.block = b,
                                    !.ok = r.ok, !.before = disk]
    /\ UNCHANGED <<hpc, steps, cur, outcome, reported, invoked, sx, calls,
                   dispatches, cycles, scenario, inclusions, exclusions, pl, rq, rc, mk,
                   globbed, em, budget, executedCommands, ctx, cf>>

\* handleCommandFailure: processFileCreationMarkers on a solution with one
\* file block
RecoveryCreatesFile ==
    /\ \E b \in BlockInputs :
        LET r == processFileCreationMarkers(disk, includedFiles,
                                            excludedFiles, <<b>>)
        IN  /\ disk' = r.disk
            /\ includedFiles' = r.inc
            /\ excludedFiles' = r.exc
            /\ last' = [NoOp EXCEPT !.kind = "recovery", !.block = b,
                                    !.ok = r.ok, !.before = disk]
    /\ UNCHANGED <<hpc, steps, cur, outcome, reported, invoked, sx, calls,
                   dispatches, cycles, scenario, inclusions, exclusions, pl, rq, rc, mk,
                   globbed, em, budget, executedCommands, ctx, cf>>

\* handleCommandFailure: editFileBlock on an edit of the solution
RecoveryEditsFile ==
    /\ \E e \in EditInputs :
        LET r == editFileBlock(disk, e)
        IN  /\ disk' = r.disk
            /\ last' = [NoOp EXCEPT !.kind = "edit", !.edit = e,
                                    !.ok = r.ok, !.wrote = r.wrote,
                                    !.before = disk]
    /\ UNCHANGED <<hpc, steps, cur, outcome, reported, invoked, sx, calls,
                   dispatches, cycles, scenario, inclusions, exclusions, pl, rq, rc, mk,
                   globbed, em, budget, includedFiles, excludedFiles,
                   executedCommands, ctx, cf>>

NextBlocks ==
    \/ StepCreatesFile
    \/ RecoveryCreatesFile
    \/ RecoveryEditsFile

SpecBlocks == InitBlocks /\ [][NextBlocks]_vars

---------------------------------------------------------------------------
(* SpecRetry: one call of executeCommandWithRetry from executeStep, with   *)
(* the recursion through handleCommandFailure.  Here the model is free to  *)
(* propose a command in every recovery plan, without the budget of Spec,   *)
(* and a plan proposes at most one.  With one command in the plan          *)
(* handleCommandFailure returns recoverySuccessful, which is true if the   *)
(* plan's edits and file blocks set it or if the nested call resolved      *)
(* true, so a chain of nested calls is the innermost call, the command it  *)
(* runs, and whether some plan on the way has set the flag; when the       *)
(* innermost call resolves, the calls around it resolve one after the      *)
(* other in the same turn of microtasks, which is one action.              *)

InitRetry ==
    /\ hpc = "idle"
    /\ steps = <<>>
    /\ cur = 0
    /\ outcome = <<>>
    /\ reported = -1
    /\ invoked = <<>>
    /\ sx = <<>>
    /\ calls = <<>>
    /\ dispatches = <<>>
    /\ cycles = <<>>
    /\ scenario = "retry"
    /\ budget = 0
    /\ disk = [p \in Paths |-> NoFile]
    /\ includedFiles = {}
    /\ excludedFiles = {}
    /\ executedCommands = {}
    /\ ctx = "ready"
    /\ cf = [w \in 1..MaxWriters |-> NoWriter]
    /\ inclusions = {CodeFiles}
    /\ exclusions = InDirectory
    /\ globbed = <<>>
    /\ em = NoEdits
    /\ last = NoOp
    /\ pl = NoPipeline
    /\ rq = NoRequests
    /\ mk = NoMarkers
    /\ rc = NoRetry

\* executeCommandWithRetry(command) called by executeStep: a long-running
\* command resolves true at once, a regular one is sent to its terminal
ExecuteCommandWithRetry ==
    /\ rc.pc = "idle"
    /\ \E command \in Cmds :
        rc' = IF isLongRunningCommand(command)
              THEN [rc EXCEPT !.pc = "resolved", !.cmd = command,
                              !.result = TRUE]
              ELSE [rc EXCEPT !.pc = "session", !.cmd = command]
    /\ UNCHANGED <<hpc, steps, cur, outcome, reported, invoked, sx, calls,
                   dispatches, cycles, scenario, inclusions, exclusions, pl, rq, mk,
                   globbed, em, last, budget, disk, includedFiles,
                   excludedFiles, executedCommands, ctx, cf>>

\* onDidCloseTerminal: the exit code is read; 0 resolves the call true, and
\* with it the calls around it; anything else goes to handleCommandFailure
TerminalClosed ==
    /\ rc.pc = "session"
    /\ \E capture \in Captures :
        /\ capture = <<"0", "">> => 0 \in ExitCodes(rc.cmd)
        /\ rc' = IF parseExitCode(capture) = 0
                 THEN [rc EXCEPT !.pc = "resolved", !.capture = capture,
                                 !.result = TRUE]
                 ELSE [rc EXCEPT !.pc = "analysis", !.capture = capture]
    /\ UNCHANGED <<hpc, steps, cur, outcome, reported, invoked, sx, calls,
                   dispatches, cycles, scenario, inclusions, exclusions, pl, rq, mk,
                   globbed, em, last, budget, disk, includedFiles,
                   excludedFiles, executedCommands, ctx, cf>>

\* handleCommandFailure, the model has answered: the edits and file blocks
\* of the plan leave recoverySuccessful true or false (false when createFile
\* threw and no edit was applied), and the plan proposes no command or one.
\* No command: it returns
\* recoverySuccessful.  A long-running command: the nested call resolves
\* true.  A regular command: the nested call sends it to a new terminal;
\* executedCommands is empty, so no proposal is filtered out.
RecoveryPlanProposes ==
    /\ rc.pc = "analysis"
    /\ \E recoverySuccessful \in BOOLEAN, proposal \in Cmds \cup {""} :
        LET n == IF rc.recoveries < MaxCounted THEN rc.recoveries + 1
                 ELSE rc.recoveries
            new == NewCommands(IF proposal = "" THEN <<>> ELSE <<proposal>>,
                               executedCommands)
        IN  rc' = IF new = <<>>
                  THEN [rc EXCEPT !.pc = "resolved", !.recoveries = n,
                                  !.result = rc.rs \/ recoverySuccessful]
                  ELSE IF isLongRunningCommand(new[1])
                  THEN [rc EXCEPT !.pc = "resolved", !.recoveries = n,
                                  !.cmd = new[1], !.result = TRUE]
                  ELSE [rc EXCEPT !.pc = "session", !.recoveries = n,
                                  !.cmd = new[1],
                                  !.rs = rc.rs \/ recoverySuccessful]
    /\ UNCHANGED <<hpc, steps, cur, outcome, reported, invoked, sx, calls,
                   dispatches, cycles, scenario, inclusions, exclusions, pl, rq, mk,
                   globbed, em, last, budget, disk, includedFiles,
                   excludedFiles, executedCommands, ctx, cf>>

\* handleCommandFailure, the model call has failed: the catch returns false,
\* the calls around resolve with the flags of their plans
RecoveryPlanFails ==
    /\ rc.pc = "analysis"
    /\ rc' = [rc EXCEPT !.pc = "resolved",
                        !.recoveries = IF @ < MaxCounted THEN @ + 1 ELSE @,
                        !.result = rc.rs]
    /\ UNCHANGED <<hpc, steps, cur, outcome, reported, invoked, sx, calls,
                   dispatches, cycles, scenario, inclusions, exclusions, pl, rq, mk,
                   globbed, em, last, budget, disk, includedFiles,
                   excludedFiles, executedCommands, ctx, cf>>

NextRetry ==
    \/ ExecuteCommandWithRetry
    \/ TerminalClosed
    \/ RecoveryPlanProposes
    \/ RecoveryPlanFails

\* every terminal session ends and every model call returns or fails
SpecRetry ==
    /\ InitRetry
    /\ [][NextRetry]_vars
    /\ WF_vars(TerminalClosed)
    /\ WF_vars(RecoveryPlanProposes \/ RecoveryPlanFails)

---------------------------------------------------------------------------
(* SpecRequests: the user sends up to MaxRequests messages, at any time.   *)
(* Each activation of handleUserMessage is followed through its planning   *)
(* call and its steps; a step's answer has at most one file block and one  *)
(* command, the file is written and the command runs to its end (the race  *)
(* with the timer and the failures of a step are the subject of Spec).     *)

InitRequests ==
    /\ hpc = "idle"
    /\ steps = <<>>
    /\ cur = 0
    /\ outcome = <<>>
    /\ reported = -1
    /\ invoked = <<>>
    /\ sx = <<>>
    /\ calls = <<>>
    /\ dispatches = <<>>
    /\ cycles = <<>>
    /\ scenario = "requests"
    /\ budget = 0
    /\ disk = [p \in Paths |-> NoFile]
    /\ includedFiles = {}
    /\ excludedFiles = {}
    /\ executedCommands = {}
    /\ ctx = "ready"
    /\ cf = [w \in 1..MaxWriters |-> NoWriter]
    /\ inclusions = {CodeFiles}
    /\ exclusions = InDirectory
    /\ globbed = <<>>
    /\ em = NoEdits
    /\ last = NoOp
    /\ pl = NoPipeline
    /\ mk = NoMarkers
    /\ rc = NoRetry
    /\ rq = NoRequests

\* what no action of SpecRequests changes
RequestsFrame ==
    UNCHANGED <<hpc, steps, cur, outcome, reported, invoked, sx, calls,
                dispatches, cycles, scenario, inclusions, exclusions, pl, rc, mk,
                globbed, em, last, budget, disk, includedFiles,
                excludedFiles, executedCommands, ctx, cf>>

\* onDidReceiveMessage: the listener calls handleUserMessage(message.text),
\* which builds the context and sends the planning call.  Nothing in the
\* listener or in handleUserMessage looks at the activations still running.
MessageReceived(r) ==
    /\ rq[r].pc = "none"
    /\ \A q \in 1..(r - 1) : rq[q].pc # "none"
    /\ rq' = [rq EXCEPT ![r].pc = "planning"]
    /\ RequestsFrame

\* the plan arrives with n steps: none ends the request, otherwise
\* executeStep(1) sends its model call
RequestPlanReturns(r) ==
    /\ rq[r].pc = "planning"
    /\ \E n \in 0..MaxSteps :
        rq' = IF n = 0 THEN [rq EXCEPT ![r].pc = "done"]
              ELSE [rq EXCEPT ![r].pc = "model", ![r].steps = n,
                              ![r].cur = 1]
    /\ RequestsFrame

\* the planning call throws: the catch of handleUserMessage ends the request
RequestPlanFails(r) ==
    /\ rq[r].pc = "planning"
    /\ rq' = [rq EXCEPT ![r].pc = "done"]
    /\ RequestsFrame

\* executeStep: the implementation arrives, with a file block or not and a
\* command line or not
RequestStepAnswered(r) ==
    /\ rq[r].pc = "model"
    /\ \E file \in BOOLEAN, cmd \in BOOLEAN :
        rq' = [rq EXCEPT ![r].pc = "run", ![r].file = file, ![r].cmd = cmd]
    /\ RequestsFrame

\* executeStep: createFile writes the file of the step
RequestWritesFile(r) ==
    /\ rq[r].pc = "run"
    /\ rq[r].file
    /\ rq' = [rq EXCEPT ![r].file = FALSE]
    /\ RequestsFrame

\* executeStep: the files are done, the command is sent to its terminal
RequestDispatchesCommand(r) ==
    /\ rq[r].pc = "run"
    /\ ~rq[r].file
    /\ rq[r].cmd
    /\ rq' = [rq EXCEPT ![r].pc = "wait"]
    /\ RequestsFrame

\* executeCommandWithRetry resolves
RequestCommandResolved(r) ==
    /\ rq[r].pc = "wait"
    /\ rq' = [rq EXCEPT ![r].pc = "run", ![r].cmd = FALSE]
    /\ RequestsFrame

\* the step is over: the loop invokes the next step, or posts the summary
RequestStepCompleted(r) ==
    /\ rq[r].pc = "run"
    /\ ~rq[r].file
    /\ ~rq[r].cmd
    /\ rq' = IF rq[r].cur < rq[r].steps
             THEN [rq EXCEPT ![r].pc = "model", ![r].cur = @ + 1]
             ELSE [rq EXCEPT ![r].pc = "done"]
    /\ RequestsFrame

NextRequests ==
    \E r \in 1..MaxRequests :
        \/ MessageReceived(r)
        \/ RequestPlanReturns(r)
        \/ RequestPlanFails(r)
        \/ RequestStepAnswered(r)
        \/ RequestWritesFile(r)
        \/ RequestDispatchesCommand(r)
        \/ RequestCommandResolved(r)
        \/ RequestStepCompleted(r)

SpecRequests == InitRequests /\ [][NextRequests]_vars

---------------------------------------------------------------------------
(* SpecPipeline: a request in the edit-marker pipeline.  The               *)
(* implementations are drawn from PipelineTexts, which have no file block, *)
(* so processFileCreationMarkers finds nothing to do.                      *)

\* a rewrite, which applies to any workspace; a delete of lines 2 to 9,
\* which fails on a file of fewer lines; a replace whose header has no line
\* range, which is not valid
PipelineTexts ==
    { Rewrite(<< <<"n">> >>),
      Rewrite(<< <<"n">>, <<"m">> >>),
      Block(DELETE_BLOCK, "2-9", << <<"n">> >>),
      << <<REPLACE_BLOCK, "a.txt">>, <<"n">>, <<END_BLOCK>> >> }

InitPipeline ==
    /\ hpc = "idle"
    /\ steps = <<>>
    /\ cur = 0
    /\ outcome = <<>>
    /\ reported = -1
    /\ invoked = <<>>
    /\ sx = <<>>
    /\ calls = <<>>
    /\ dispatches = <<>>
    /\ cycles = <<>>
    /\ scenario = "pipeline"
    /\ budget = 0
    /\ disk \in EditWorkspaces
    /\ includedFiles = {}
    /\ excludedFiles = {}
    /\ executedCommands = {}
    /\ ctx = "ready"
    /\ cf = [w \in 1..MaxWriters |-> NoWriter]
    /\ inclusions = {CodeFiles}
    /\ exclusions = InDirectory
    /\ globbed = <<>>
    /\ em = NoEdits
    /\ last = NoOp
    /\ mk = NoMarkers
    /\ rc = NoRetry
    /\ rq = NoRequests
    /\ pl = NoPipeline

\* what no action of SpecPipeline changes
PipelineFrame ==
    UNCHANGED <<hpc, steps, cur, outcome, reported, invoked, sx, calls,
                dispatches, cycles, scenario, inclusions, exclusions, rq, rc,
                mk, globbed, em, last, budget, includedFiles, excludedFiles,
                executedCommands, ctx, cf>>

\* the for loop goes on behind step k: the first implementation of the next
\* step is requested, or the final message is posted
PipelineAdvance(p, k) ==
    IF k < p.steps
    THEN [p EXCEPT !.pc = "attempt", !.step = k + 1, !.retryCount = 0,
                   !.requests[k + 1] = 1]
    ELSE [p EXCEPT !.pc = "finished",
                   !.status = IF p.hasErrors THEN "errors" ELSE "success"]

\* handleUserMessage: the planning call is sent
PipelineMessage ==
    /\ pl.pc = "idle"
    /\ pl' = [pl EXCEPT !.pc = "planning"]
    /\ UNCHANGED disk
    /\ PipelineFrame

\* the plan arrives, n of its lines are steps
PipelinePlanReturns ==
    /\ pl.pc = "planning"
    /\ \E n \in 0..MaxSteps :
        pl' = PipelineAdvance([pl EXCEPT !.steps = n,
                                         !.requests = [k \in 1..n |-> 0],
                                         !.lastOk = [k \in 1..n |-> FALSE]],
                              0)
    /\ UNCHANGED disk
    /\ PipelineFrame

\* an implementation arrives and goes to processEditMarkers: with errors the
\* step is requested again while retryCount < MaxAttempts, otherwise the
\* loop goes on
PipelineAttemptReturns ==
    /\ pl.pc = "attempt"
    /\ \E implementation \in PipelineTexts :
        LET editResult == processEditMarkers(disk, implementation)
            k == pl.step
            noted == [pl EXCEPT !.lastOk[k] = editResult.success]
        IN  /\ disk' = editResult.disk
            /\ pl' = IF editResult.success THEN PipelineAdvance(noted, k)
                     ELSE IF pl.retryCount + 1 < MaxAttempts
                     THEN [noted EXCEPT !.hasErrors = TRUE,
                                        !.retryCount = @ + 1,
                                        !.requests[k] = @ + 1]
                     ELSE PipelineAdvance(
                              [noted EXCEPT !.hasErrors = TRUE,
                                            !.retryCount = @ + 1], k)
    /\ PipelineFrame

\* a call of the model throws: the catch of handleUserMessage
PipelineModelFails ==
    /\ pl.pc \in {"planning", "attempt"}
    /\ pl' = [pl EXCEPT !.pc = "finished", !.status = "error"]
    /\ UNCHANGED disk
    /\ PipelineFrame

NextPipeline ==
    \/ PipelineMessage
    \/ PipelinePlanReturns
    \/ PipelineAttemptReturns
    \/ PipelineModelFails

SpecPipeline == InitPipeline /\ [][NextPipeline]_vars

---------------------------------------------------------------------------
(* SpecMarkers: one answer of the model, from its text to the files        *)
(* written and the commands dispatched.  executeStep takes an              *)
(* implementation, handleCommandFailure a recovery plan; what a dispatched *)
(* command does afterwards is the subject of Spec, here its result is the  *)
(* environment's.                                                          *)

MarkerWorkspaces ==
    { [p \in Paths |-> NoFile],
      [p \in Paths |-> IF p = "a.txt" THEN <<"x", "x">> ELSE NoFile] }

InitMarkers ==
    /\ hpc = "idle"
    /\ steps = <<>>
    /\ cur = 0
    /\ outcome = <<>>
    /\ reported = -1
    /\ invoked = <<>>
    /\ sx = <<>>
    /\ calls = <<>>
    /\ dispatches = <<>>
    /\ cycles = <<>>
    /\ scenario = "markers"
    /\ budget = 0
    /\ disk \in MarkerWorkspaces
    /\ includedFiles = {}
    /\ excludedFiles = {}
    /\ executedCommands = {}
    /\ ctx = "ready"
    /\ cf = [w \in 1..MaxWriters |-> NoWriter]
    /\ inclusions = {CodeFiles}
    /\ exclusions = InDirectory
    /\ globbed = <<>>
    /\ em = NoEdits
    /\ last = NoOp
    /\ pl = NoPipeline
    /\ rq = NoRequests
    /\ rc = NoRetry
    /\ mk = NoMarkers

\* executeStep from the model's answer to the end of the loop over files: a
\* createFile that throws ends the step, no command is run
ExecStepImplementation ==
    /\ mk.pc = "idle"
    /\ \E text \in MarkerTexts :
        LET files == stepFiles(text)
            commands == commandMatches(text)
            r == createFiles(disk, includedFiles, excludedFiles, files)
        IN  /\ disk' = r.disk
            /\ includedFiles' = r.inc
            /\ excludedFiles' = r.exc
            /\ mk' = [pc |-> IF r.ok /\ commands # <<>> THEN "commands"
                             ELSE "done",
                      kind |-> "step", text |-> text, before |-> disk,
                      files |-> files, commands |-> commands,
                      dispatched |-> <<>>, ok |-> r.ok]
    /\ UNCHANGED <<hpc, steps, cur, outcome, reported, invoked, sx, calls,
                   dispatches, cycles, scenario, inclusions, exclusions, pl, rq, rc,
                   globbed, em, last, budget, executedCommands, ctx, cf>>

\* executeStep's loop over commands: the next command is dispatched and
\* awaited; a failure ends the step (the step is not long-running)
ExecStepCommandRuns ==
    /\ mk.pc = "commands"
    /\ \E success \in BOOLEAN :
        LET n == Len(mk.dispatched) + 1
        IN  mk' = [mk EXCEPT !.dispatched = Append(@, mk.commands[n]),
                             !.ok = success,
                             !.pc = IF success /\ n < Len(mk.commands)
                                    THEN "commands" ELSE "done"]
    /\ UNCHANGED <<hpc, steps, cur, outcome, reported, invoked, sx, calls,
                   dispatches, cycles, scenario, inclusions, exclusions, pl, rq, rc,
                   globbed, em, last, budget, disk, includedFiles,
                   excludedFiles, executedCommands, ctx, cf>>

\* handleCommandFailure from the model's answer to Promise.all: the file
\* blocks go to processFileCreationMarkers, then every command that is not in
\* executedCommands is dispatched (the text has no EDIT_FILE line)
RecoveryPlanReturns ==
    /\ mk.pc = "idle"
    /\ \E text \in MarkerTexts :
        LET files == fileMatches(text, 1)
            commands == commandMatches(text)
            r == processFileCreationMarkers(disk, includedFiles,
                                            excludedFiles, files)
        IN  /\ disk' = r.disk
            /\ includedFiles' = r.inc
            /\ excludedFiles' = r.exc
            /\ mk' = [pc |-> "done", kind |-> "recovery", text |-> text,
                      before |-> disk, files |-> files,
                      commands |-> commands,
                      dispatched |-> NewCommands(commands, executedCommands),
                      ok |-> r.ok]
    /\ UNCHANGED <<hpc, steps, cur, outcome, reported, invoked, sx, calls,
                   dispatches, cycles, scenario, inclusions, exclusions, pl, rq, rc,
                   globbed, em, last, budget, executedCommands, ctx, cf>>

NextMarkers ==
    \/ ExecStepImplementation
    \/ ExecStepCommandRuns
    \/ RecoveryPlanReturns

SpecMarkers == InitMarkers /\ [][NextMarkers]_vars

---------------------------------------------------------------------------
(* Properties.                                                             *)

StepIds == 1..Len(steps)

\* executeStep(k) was invoked and has neither returned nor thrown
Running(k) == sx[k].pc \in {"model", "run", "wait"}

\* a file write, a command or a recovery of step k is still to come or out
Pending(k) ==
    \/ sx[k].pc = "wait"
    \/ sx[k].pc = "run" /\ (sx[k].files # <<>> \/ sx[k].cmds # <<>>)

\* step k has sent at least one command to a terminal
Dispatched(k) == \E c \in Cmds : dispatches[k][c] > 0

\* C1: handleUserMessage invokes executeStep for the steps 1, 2, ... in
\* strictly increasing order, each at most once, and a step that has sent a
\* command to a terminal has no file instruction left to apply.
C1_StepsInOrderFilesBeforeCommands ==
    /\ Len(invoked) <= Len(steps)
    /\ \A i \in 1..Len(invoked) : invoked[i] = i
    /\ \A k \in StepIds :
        Dispatched(k) \/ calls[k] # NoCalls => sx[k].files = <<>>

\* C1, its case: the second step of a plan has applied its file blocks and
\* has a command out.
C1_Witness ==
    /\ invoked = <<1, 2>>
    /\ sx[2].pc = "wait"
    /\ disk["b.txt"] # NoFile
    /\ outcome[1] = "completed"

\* C2 as stated: no later step has been started while a file write, a
\* command or a recovery of an earlier step is pending.
C2_StepsNeverOverlap ==
    \A i \in StepIds : \A j \in StepIds :
        i < j => ~(Pending(i) /\ Running(j))

\* C2 amended: a later step is started while an earlier step has not yet
\* returned or thrown only if the earlier step hit the 60 s timeout.
C2_OverlapOnlyAfterTimeout ==
    \A i \in StepIds : \A j \in StepIds :
        i < j /\ Running(i) /\ sx[j].pc # "none" => outcome[i] = "timeout"

\* C2, its case: step 1 timed out while its command was out, and step 2
\* writes its files in the meantime.
C2_Witness ==
    /\ Len(steps) = 2
    /\ outcome[1] = "timeout"
    /\ sx[1].pc = "wait"
    /\ sx[2].pc = "run"
    /\ sx[2].files # <<>>

\* the ways handleUserMessage returns
Returned == {"nosteps", "asked", "summary", "error"}

\* C3: when a step failed with an error other than the timeout and
\* handleUserMessage has returned, every step of the plan was attempted and
\* the summary was emitted.
C3_FailureNeverEndsRun ==
    \A k \in StepIds :
        outcome[k] = "failed" /\ hpc \in Returned
            => hpc = "summary" /\ Len(invoked) = Len(steps)

\* C4: the count of completed steps in the summary is the number of steps
\* whose executeStep finished without error and before the timeout.
C4_SummaryCountsCompleted ==
    hpc = "summary" =>
        reported = Cardinality({k \in StepIds : outcome[k] = "completed"})

\* C5: no recovery command dispatched by the handleCommandFailure of a
\* failed command equals that command.
C5_FailedCommandNotReissued ==
    \A k \in StepIds : \A f \in DOMAIN calls[k] :
        \A c \in Children(calls[k], f) : calls[k][c].cmd # calls[k][f].cmd

\* C6: the recovery commands dispatched by one handleCommandFailure call
\* are pairwise different.
C6_NoCommandTwiceInCycle ==
    \A k \in StepIds : \A f \in DOMAIN calls[k] :
        \A c \in Children(calls[k], f) : \A d \in Children(calls[k], f) :
            c # d => calls[k][c].cmd # calls[k][d].cmd

\* C7: when a step has failed on a command that exits non-zero on every run,
\* that command was dispatched exactly maxRetries times and
\* handleCommandFailure was called for it exactly once.
C7_FourDispatchesOneRecovery ==
    \A k \in StepIds :
        sx[k].err = "command" /\ 0 \notin ExitCodes(Head(sx[k].cmds))
            => /\ dispatches[k][Head(sx[k].cmds)] = maxRetries
               /\ cycles[k][Head(sx[k].cmds)] = 1

\* C8: while one step command is handled, no command string is dispatched
\* more than maxRetries times, the dispatches of recovery included.
C8_AtMostFourDispatches ==
    \A k \in StepIds : \A c \in Cmds : dispatches[k][c] <= maxRetries

\* C9: a command that exited non-zero resolves true only if its
\* handleCommandFailure wrote a file or one of its recovery commands
\* resolved true.
C9_RecoveryNeedsAppliedChange ==
    \A k \in StepIds : \A f \in DOMAIN calls[k] :
        LET c == calls[k][f]
        IN  c.st = "resolved" /\ c.failed /\ c.ok
                => c.applied > 0 \/ c.anyOk

\* the head of step k's file blocks makes createFile throw now
FileWouldFail(k) ==
    /\ sx[k].pc = "run"
    /\ sx[k].files # <<>>
    /\ ~createFile(disk, includedFiles, excludedFiles, Head(sx[k].files).path,
                   Trim(Head(sx[k].files).content)).ok

\* C10: when createFile throws in the files loop of executeStep, the step
\* throws with its remaining file blocks unapplied; a step that has thrown
\* does nothing more; a step that has thrown on a file has dispatched no
\* command and is never reported as completed.
C10_FileFailureAbandonsStep ==
    /\ [][\A k \in StepIds :
            /\ FileWouldFail(k) /\ sx'[k] # sx[k]
                => /\ sx'[k].pc = "threw"
                   /\ sx'[k].files = sx[k].files
                   /\ sx'[k].cmds = sx[k].cmds
            /\ sx[k].pc = "threw"
                => /\ sx'[k] = sx[k]
                   /\ calls'[k] = calls[k]
                   /\ dispatches'[k] = dispatches[k]]_vars
    /\ [](\A k \in StepIds :
            sx[k].err = "file"
                => /\ ~Dispatched(k)
                   /\ calls[k] = NoCalls
                   /\ outcome[k] # "completed")

\* C10, its case: the first of two file blocks of step 2 was refused, the
\* second was not written, the step's command was not sent, and the
\* orchestrator saw the failure.
C10_Witness ==
    /\ Len(steps) = 2
    /\ sx[2].err = "file"
    /\ Len(sx[2].files) = 2
    /\ sx[2].cmds # <<>>
    /\ disk["b.txt"] = NoFile
    /\ outcome[2] = "failed"

\* C11: when the timer wins the race of step k, the orchestrator goes on with
\* step k + 1, or posts the summary when k is the last step; it calls
\* handleStepError, and asks the user, only for a step that failed.
C11_TimeoutAdvances ==
    /\ [][\A k \in StepIds :
            outcome[k] # "timeout" /\ outcome'[k] = "timeout"
                => IF k < Len(steps)
                   THEN /\ hpc' = "race"
                        /\ cur' = k + 1
                        /\ sx'[k + 1].pc = "model"
                        /\ invoked' = Append(invoked, k + 1)
                   ELSE hpc' = "summary"]_vars
    /\ [](hpc \in {"steperr", "asked"} => outcome[cur] = "failed")

\* C11, its case: both steps of a plan timed out and the summary was posted.
C11_Witness ==
    /\ Len(steps) = 2
    /\ outcome = <<"timeout", "timeout">>
    /\ hpc = "summary"

\* C12: a plan without steps ends the run in "nosteps": no executeStep was
\* invoked, no file written, no command dispatched, no summary posted, and
\* nothing happens afterwards; every other way through the loop has steps.
C12_NoStepsFound ==
    /\ [](hpc = "nosteps"
            => /\ steps = <<>>
               /\ invoked = <<>>
               /\ sx = <<>>
               /\ calls = <<>>
               /\ disk = [p \in Paths |-> NoFile]
               /\ reported = -1)
    /\ [](hpc \in {"race", "steperr", "asked", "summary"} => steps # <<>>)
    /\ [][hpc = "nosteps" => UNCHANGED vars]_vars

\* C12, its case: the plan had no step.
C12_Witness == hpc = "nosteps" /\ scenario = "plan"

C16_LongRunningStepTolerates ==
    /\ [][\A k \in StepIds :
            sx[k].pc = "wait" /\ sx'[k].pc # "wait" /\ ~calls[k][Root].ok
                => IF steps[k].isLongRunning
                   THEN /\ sx'[k].pc = "run"
                        /\ sx'[k].cmds = Tail(sx[k].cmds)
                   ELSE /\ sx'[k].pc = "threw"
                        /\ sx'[k].err = "command"
                        /\ sx'[k].cmds = sx[k].cmds]_vars
    /\ [](\A k \in StepIds :
            /\ steps[k].isLongRunning => sx[k].err # "command"
            /\ ~steps[k].isLongRunning => sx[k].tolerated = 0
            /\ sx[k].err = "command" => sx[k].pc = "threw" /\ sx[k].cmds # <<>>)

\* C16, its case: in a step marked long-running the command "false" failed
\* for good, the next command was dispatched all the same, and the step was
\* reported completed.
C16_Witness ==
    \E k \in StepIds :
        /\ steps[k].isLongRunning
        /\ sx[k].tolerated = 1
        /\ dispatches[k]["npm run dev"] = 1
        /\ outcome[k] = "completed"

\* the recovery commands that the handleCommandFailure of f has out
Open(t, f) == {c \in Children(t, f) : t[c].st # "resolved"}

\* C14: handleCommandFailure returns only when every recovery command it
\* dispatched has resolved; it then returns true if one of them resolved
\* true, and otherwise what the edits and file blocks made of
\* recoverySuccessful.
C14_RecoveryWaitsForAll ==
    [][\A k \in StepIds : \A f \in DOMAIN calls[k] :
            calls[k][f].st = "waiting" /\ f \in DOMAIN calls'[k]
                /\ calls'[k][f].st = "resolved"
            => /\ Open(calls[k], f) = {}
               /\ calls'[k][f].anyOk
                    = (\E c \in Children(calls[k], f) : calls[k][c].ok)
               /\ calls'[k][f].ok = (calls[k][f].rs \/ calls'[k][f].anyOk)]_vars

\* C14, its case: two recovery commands ran at the same time, one has
\* resolved true and the other has not resolved yet.
C14_Witness ==
    \E k \in StepIds : \E f \in DOMAIN calls[k] :
        /\ calls[k][f].st = "waiting"
        /\ Cardinality(Children(calls[k], f)) = 2
        /\ Cardinality(Open(calls[k], f)) = 1
        /\ \E c \in Children(calls[k], f) : calls[k][c].ok

\* C15: a call of executeCommandWithRetry for a command of the long-running
\* signature has resolved true when it returns its promise, and
\* handleCommandFailure is never called for such a command.
C15_LongRunningCommandNotAwaited ==
    /\ \A k \in StepIds : \A f \in DOMAIN calls[k] :
        isLongRunningCommand(calls[k][f].cmd)
            => /\ calls[k][f].st = "resolved"
               /\ calls[k][f].ok
               /\ ~calls[k][f].failed
    /\ \A k \in StepIds : \A c \in Cmds :
        isLongRunningCommand(c) => cycles[k][c] = 0 /\ dispatches[k][c] <= 1

\* C15, its case: a step waits for "npm run dev", which has resolved.
C15_Witness ==
    \E k \in StepIds :
        /\ sx[k].pc = "wait"
        /\ calls[k][Root].cmd = "npm run dev"
        /\ calls[k][Root].st = "resolved"
        /\ dispatches[k]["npm run dev"] = 1

\* C17: the included set never holds more than maxFiles files, and includeFile
\* on a full set throws and changes neither set.
C17_CapacityRespected ==
    /\ Cardinality(includedFiles) <= maxFiles
    /\ \A p \in Paths :
        Cardinality(includedFiles) = maxFiles
            => LET r == includeFile(includedFiles, excludedFiles, p)
               IN  ~r.ok /\ r.inc = includedFiles /\ r.exc = excludedFiles

\* C17, its case: the set is full and the includeFile of a createFile threw
\* for a file that is not in it.
C17_Witness ==
    /\ Cardinality(includedFiles) = maxFiles
    /\ \E w \in 1..MaxWriters :
        cf[w].err = "Capacity" /\ cf[w].path \notin includedFiles

\* C18: the included and the excluded set are disjoint, and includeFile(p)
\* followed by excludeFile(p) leaves p excluded and not included, whether or
\* not includeFile threw.
C18_IncludedExcludedDisjoint ==
    /\ includedFiles \cap excludedFiles = {}
    /\ \A p \in Paths :
        LET i == includeFile(includedFiles, excludedFiles, p)
            e == excludeFile(i.inc, i.exc, p)
        IN  p \notin e.inc /\ p \in e.exc /\ e.inc \cap e.exc = {}

\* C18, its case: a file that createFile included was excluded afterwards,
\* while another file is included.
C18_Witness ==
    \E w \in 1..MaxWriters :
        /\ cf[w].pc = "done"
        /\ cf[w].path \in excludedFiles
        /\ cf[w].path \notin includedFiles
        /\ includedFiles # {}

\* createFile call w has written its content
HasWritten(w) == cf[w].pc \in {"written", "included", "done"}
                    \/ cf[w].err \in {"Capacity", "Open"}

\* C19: a createFile that threw NotLonger has written nothing, and a
\* createFile that has written over an existing file had content strictly
\* longer, trimmed, than the content it replaced.
C19_OnlyLongerOverwrites ==
    \A w \in 1..MaxWriters :
        /\ cf[w].err = "NotLonger" => ~HasWritten(w) /\ cf[w].over = <<>>
        /\ HasWritten(w) /\ cf[w].over # NoFile
            => ~NotLonger(cf[w].content, cf[w].over)

\* C20 as stated: when a createFile returns without error, its file holds its
\* content and its path is included and not excluded.
C20_DoneMeansWrittenAndIncluded ==
    [][\A w \in 1..MaxWriters :
            cf[w].pc # "done" /\ cf'[w].pc = "done"
                => /\ disk'[cf[w].path] = cf[w].content
                   /\ cf[w].path \in includedFiles'
                   /\ cf[w].path \notin excludedFiles']_vars

\* C20 amended: a createFile that returns without error has written its
\* content to its file and has then included its path: the file holds the
\* content right after the write, and the path is included and not excluded
\* right after the includeFile.
C20_WrittenThenIncluded ==
    /\ [][\A w \in 1..MaxWriters :
            /\ ~HasWritten(w) /\ HasWritten(w)'
                => disk'[cf[w].path] = cf[w].content
            /\ cf[w].pc # "included" /\ cf'[w].pc = "included"
                => /\ cf[w].pc = "written"
                   /\ cf[w].path \in includedFiles'
                   /\ cf[w].path \notin excludedFiles'
            /\ cf[w].pc # "done" /\ cf'[w].pc = "done"
                => cf[w].pc = "included"]_vars
    /\ [](\A w \in 1..MaxWriters : cf[w].pc = "done" => cf[w].err = "none")

\* C20, its case: a createFile has returned without error for a file that the
\* user had excluded before, and the file is included and holds the content.
C20_Witness ==
    \E w \in 1..MaxWriters :
        /\ cf[w].pc = "done"
        /\ disk[cf[w].path] = cf[w].content
        /\ cf[w].path \in includedFiles
        /\ cf[w].path \notin excludedFiles
        /\ excludedFiles # {}

\* C21: when updateContext has rebuilt the context, every included path
\* matches at least one inclusion pattern and no exclusion pattern, the
\* excluded set is empty, and when more than maxFiles paths qualify, the
\* included ones are exactly the first maxFiles of them in the order of the
\* enumeration.
C21_RebuildFollowsGlobs ==
    [][(ctx = "globbing" /\ ctx' = "ready") =>
        LET Qualifies(p) == /\ \E g \in inclusions : minimatch(p, g)
                            /\ ~(\E g \in exclusions : minimatch(p, g))
            q == SelectSeq(globbed', Qualifies)
        IN  /\ \A p \in includedFiles' : Qualifies(p)
            /\ excludedFiles' = {}
            /\ Len(q) > maxFiles =>
                  includedFiles' = {q[i] : i \in 1..maxFiles}]_vars

\* C22: a failure of a model call ends only its own phase.  When the
\* planning call fails, the request ends with the error report and no step
\* was invoked, no file written and no command dispatched; when the analysis
\* call of a recovery fails, that handleCommandFailure returns false and
\* raises nothing: the step that waits for the command is where it was, and
\* so are the orchestrator and the workspace.
C22_ModelFailureEndsItsPhase ==
    /\ [](hpc = "error" =>
            /\ steps = <<>> /\ invoked = <<>> /\ sx = <<>>
            /\ calls = <<>> /\ dispatches = <<>>
            /\ \A p \in Paths : disk[p] = NoFile)
    /\ [][hpc = "error" => hpc' = "error"]_vars
    /\ [][\A k \in StepIds : \A f \in DOMAIN calls[k] :
            calls[k][f].st = "analysis" /\ f \in DOMAIN calls'[k]
                /\ calls'[k][f].err = "analysis"
            => /\ calls'[k][f].st = "resolved"
               /\ ~calls'[k][f].ok
               /\ sx' = sx /\ hpc' = hpc /\ disk' = disk]_vars
    /\ [][\A k \in StepIds :
            (\E f \in DOMAIN calls[k] : calls[k][f].st = "analysis")
                /\ sx[k].pc # "threw"
            => sx'[k].pc # "threw"]_vars

\* C22, its case: the analysis call of a recovery has failed and the
\* recovery has returned false to the command that asked for it, while the
\* step still waits for that command.
C22_Witness ==
    \E k \in StepIds :
        /\ sx[k].pc = "wait"
        /\ Root \in DOMAIN calls[k]
        /\ calls[k][Root].err = "analysis"
        /\ calls[k][Root].st = "resolved"
        /\ ~calls[k][Root].ok

\* a header of a replace or delete block whose line range parses to two
\* numbers, the first above the second
InvertedRange(line) ==
    /\ line[1] \in {REPLACE_BLOCK, DELETE_BLOCK}
    /\ Len(line) > 3
    /\ LET parts == SplitRange(line[4])
       IN  /\ Len(parts) = 2
           /\ ParseInt(parts[1]) # Undefined
           /\ ParseInt(parts[2]) # Undefined
           /\ ParseInt(parts[2]) # 0
           /\ ParseInt(parts[1]) > ParseInt(parts[2])

\* C23: processEditMarkers, given a text with a replace or delete block whose
\* header has a start line above its end line (5-3), does not throw: the
\* block leaves the file as it is, the call returns no success and an error
\* string, and the blocks that follow are applied all the same.
C23_InvertedRangeIsReported ==
    /\ [](\A i \in 1..Len(em.done) :
            (\E j \in 1..Len(em.done[i].text) :
                InvertedRange(em.done[i].text[j]))
            => ~em.done[i].success /\ em.done[i].errors # <<>>)
    /\ [][(/\ em.pc = "loop" /\ em.blocks # <<>>
           /\ Head(em.blocks).type \in {"replace", "delete"}
           /\ Head(em.blocks).startLine > Head(em.blocks).endLine)
          => /\ disk' = disk
             /\ em'.pc = "loop"
             /\ em'.blocks = Tail(em.blocks)
             /\ Len(em'.errors) = Len(em.errors) + 1]_vars

\* the lines of the file that the last turn of the loop found (a missing
\* file is created empty before the handler reads it)
LinesBefore == split(IF em.last.before = NoFile THEN <<>> ELSE em.last.before)

\* C24: whenever handleReplaceBlock or handleDeleteBlock has modified a file,
\* the line range it worked with satisfies 1 <= startLine <= endLine <=
\* number of lines of the file, and the file is its former lines with
\* exactly the lines startLine..endLine replaced by the new content, or
\* removed.
C24_RangeWithinFile ==
    (em.last.ok /\ em.last.edit.type \in {"replace", "delete"}
        /\ em.last.after # em.last.before)
    => LET n == Len(LinesBefore)
           s == em.last.startLine
           e == em.last.endLine
       IN  /\ 1 <= s /\ s <= e /\ e <= n
           /\ em.last.after =
                join(SubSeq(LinesBefore, 1, s - 1)
                     \o (IF em.last.edit.type = "replace"
                         THEN em.last.edit.content ELSE <<>>)
                     \o SubSeq(LinesBefore, e + 1, n))

\* C25: a replace block or a delete block whose end line is above the
\* number of lines of the file (and whose start line is not) is applied up
\* to the end of the file: it is not rejected, and the file is its lines
\* before startLine, followed by the new content for a replace.
C25_EndLineClamped ==
    (/\ em.last.edit.type \in {"replace", "delete"}
     /\ 1 <= em.last.edit.startLine
     /\ em.last.edit.startLine <= Len(LinesBefore)
     /\ em.last.edit.endLine > Len(LinesBefore))
    => /\ em.last.ok
       /\ em.last.after =
            join(SubSeq(LinesBefore, 1, em.last.edit.startLine - 1)
                 \o (IF em.last.edit.type = "replace"
                     THEN em.last.edit.content ELSE <<>>))

\* C26: a delete block in its well-formed shape, the header
\* #delete-block#|file|description|s-e directly followed by #end-block#,
\* with 1 <= s <= e <= number of lines of the file, is parsed and applied:
\* when processEditMarkers has returned, the file is its former lines
\* without the lines s..e.
C26_DeleteBlockWithoutBody ==
    \A i \in 1..Len(em.done) :
        LET call == em.done[i]
            header == call.text[1]
            parts == SplitRange(header[4])
            s == ParseInt(parts[1])
            e == ParseInt(parts[Len(parts)])
            lines == split(call.before["a.txt"])
        IN  (/\ Len(call.text) = 2
             /\ header[1] = DELETE_BLOCK /\ Len(header) = 4
             /\ call.text[2] = <<END_BLOCK>>
             /\ call.before["a.txt"] # NoFile
             /\ 1 <= s /\ s <= e /\ e <= Len(lines))
            => call.disk["a.txt"] =
                   join(SubSeq(lines, 1, s - 1)
                        \o SubSeq(lines, e + 1, Len(lines)))

\* C27: an add block at line k, applied to a file of n lines, gives the
\* lines 1..k-1 of the file, then the new content, then the lines k..n of
\* the file, where k is n+1 when the header says more than n+1; no line of
\* the file is removed or moved.
C27_AddInsertsBeforeLine ==
    (em.last.ok /\ em.last.edit.type = "add")
    => LET n == Len(LinesBefore)
           k == IF em.last.edit.startLine > n + 1 THEN n + 1
                ELSE em.last.edit.startLine
       IN  /\ em.last.startLine = k
           /\ em.last.after =
                join(SubSeq(LinesBefore, 1, k - 1)
                     \o em.last.edit.content
                     \o SubSeq(LinesBefore, k, n))

\* C27, its case: an add block at line 9 of a file of three lines was
\* applied at line 4, after the three lines.
C27_Witness ==
    /\ em.last.ok /\ em.last.edit.type = "add"
    /\ em.last.before = <<"p", "q", "r">>
    /\ em.last.edit.startLine = 9
    /\ em.last.startLine = 4
    /\ em.last.after = <<"p", "q", "r", "n">>

\* C28: when the same rewrite-file edit has been applied twice in a row, the
\* file holds what it held after the first time, whether or not it existed
\* before; that is the trimmed body of the edit (a rewrite block whose body
\* is blank is no edit: parseEditBlocks drops it).
C28_RewriteTwiceIsRewriteOnce ==
    (/\ Len(em.done) = 2
     /\ em.done[1].text = em.done[2].text
     /\ em.done[1].text[1][1] = REWRITE_FILE)
    => LET blocks == parseEditBlocks(em.done[1].text)
       IN  /\ em.done[2].disk = em.done[1].disk
           /\ blocks # <<>> =>
                 /\ blocks[1].content # <<>>
                 /\ em.done[1].disk["a.txt"] = blocks[1].content
                 /\ blocks[1].content =
                        Trim([j \in 1..(Len(em.done[1].text) - 2) |->
                                 em.done[1].text[j + 1][1]])

\* C28, its case: a rewrite-file edit with blank lines around its body was
\* applied twice to a workspace that had no such file.
C28_Witness ==
    /\ Len(em.done) = 2
    /\ em.done[1].text = em.done[2].text
    /\ em.done[1].text[1][1] = REWRITE_FILE
    /\ Len(em.done[1].text) = 6
    /\ em.done[1].before["a.txt"] = NoFile
    /\ em.done[2].disk["a.txt"] = <<"n", "m">>

\* C29: an edit whose new content is what the file already holds at the
\* place it addresses (the line of the line number is the new code; the one
\* BEGIN/END block of the name is the new block) makes editFileBlock write
\* nothing: the workspace is as before, and it returns without error after
\* reporting that no changes are needed.
C29_IdenticalEditWritesNothing ==
    LET e == last.edit
        lines == split(last.before[e.file])
        identical ==
            IF e.id = ""
            THEN e.line \in 1..Len(lines) /\ lines[e.line] = e.code
            ELSE \E i \in 1..(Len(lines) - 2) :
                    /\ lines[i] = Begin(e.id)
                    /\ lines[i + 1] = e.code
                    /\ lines[i + 2] = End(e.id)
                    /\ \A j \in 1..Len(lines) : lines[j] = Begin(e.id) => j = i
    IN  (last.kind = "edit" /\ last.before[e.file] # NoFile /\ identical)
        => last.ok /\ ~last.wrote /\ disk = last.before

\* C29, its case: an edit of the block A came for a file whose block A holds
\* the new code already, and the file was not written.
C29_Witness ==
    /\ last.kind = "edit" /\ last.edit.id = "A" /\ last.edit.code = "x"
    /\ last.before["a.txt"] = <<"// BEGIN A", "x", "// END A">>
    /\ last.ok /\ ~last.wrote

\* C30: when a file block, ### path, body, %%%, has been written, by
\* executeStep or by processFileCreationMarkers, the file holds the body
\* without the code fence lines that enclose it and without the white space
\* around it; and the two ways write the same content for the same block.
C30_FileBlockRoundTrip ==
    LET body == Trim(last.block.content)
        n == Len(body)
        fenced == n >= 2 /\ IsFence(body[1]) /\ body[n] = "'''"
        expected == IF fenced THEN Trim(SubSeq(body, 2, n - 1)) ELSE body
    IN  (last.kind \in {"step", "recovery"} /\ last.ok)
        => /\ disk[last.block.path] = expected
           /\ Trim(last.block.content) = cleanContent(last.block.content)

\* C31: an unterminated file block (a ### line with no %%% before the next
\* ### line or the end of the answer) produces no file, and a terminated
\* block is created under its own path with its own body as content.  Stated
\* for an answer processed on an empty workspace and for the paths that head
\* one block of the answer only: a terminated block's path holds the trimmed
\* body of that block, an unterminated block's path holds no file.
C31_UnterminatedBlockDropped ==
    (mk.pc # "idle" /\ mk.before = [p \in Paths |-> NoFile]) =>
        \A h \in DOMAIN mk.text :
            LET p == headerPath(mk.text[h])
                stops == {n \in (h + 1)..Len(mk.text) :
                            headerPath(mk.text[n]) # ""
                            \/ isClosing(mk.text[n])}
                terminated == stops # {} /\ isClosing(mk.text[Least(stops)])
                body == SubSeq(mk.text, h + 1, Least(stops) - 1)
            IN  (/\ p # ""
                 /\ \A n \in DOMAIN mk.text :
                        n # h => headerPath(mk.text[n]) # p)
                => IF terminated THEN disk[p] = Trim(body)
                   ELSE disk[p] = NoFile

\* C32: text inside the body of a file block is never dispatched as a
\* command.  For every command, executeStep and handleCommandFailure dispatch
\* it at most as often as the answer has a line "$ command" outside the
\* bodies of its terminated file blocks.
C32_NoCommandFromFileBody ==
    mk.pc # "idle" =>
        \A c \in {"ls", "make"} :
            Occurrences(mk.dispatched, c)
            <= Cardinality(
                 {n \in DOMAIN mk.text :
                    /\ commandOf(mk.text[n]) = c
                    /\ ~\E h \in 1..(n - 1), t \in (n + 1)..Len(mk.text) :
                          /\ headerPath(mk.text[h]) # ""
                          /\ isClosing(mk.text[t])
                          /\ \A m \in (h + 1)..(t - 1) :
                                /\ headerPath(mk.text[m]) = ""
                                /\ ~isClosing(mk.text[m])})

\* C33: if every terminal session ends and every model call returns, every
\* executeCommandWithRetry call eventually resolves, whatever commands the
\* recovery plans propose.
C33_EveryCallResolves == (rc.pc # "idle") ~> (rc.pc = "resolved")

\* C34: requests are orchestrated one at a time.  A request sends its
\* planning call, writes a file or dispatches a command only when every
\* request that arrived before it has finished.
C34_OneRequestAtATime ==
    [][\A r \in 2..MaxRequests :
          (\/ rq[r].pc = "none" /\ rq'[r].pc = "planning"
           \/ rq[r].file /\ ~rq'[r].file
           \/ rq[r].pc = "run" /\ rq'[r].pc = "wait")
          => \A q \in 1..(r - 1) : rq[q].pc = "done"]_vars

\* C35: the startup rebuild never undoes a mutation made while its scan was
\* running.  When updateContext completes, every path that includeFile had
\* put into the included set is still included and every path that
\* excludeFile had put into the excluded set is still excluded (both sets
\* are empty when the scan starts).
C35_RebuildKeepsMutations ==
    [][(ctx = "globbing" /\ ctx' = "ready")
       => /\ includedFiles \subseteq includedFiles'
          /\ excludedFiles \subseteq excludedFiles']_vars

\* C36: createFile is all-or-nothing.  When the createFile of a step's file
\* block has raised an error, the content of the target file is what it was
\* before the call.
C36_CreateFileAllOrNothing ==
    (last.kind = "step" /\ ~last.ok)
    => disk[last.block.path] = last.before[last.block.path]

\* C37: includeFile is idempotent.  For every path that is in the included
\* set, includeFile succeeds and leaves both sets as they are, whatever the
\* size of the included set.
C37_IncludeFileIdempotent ==
    \A p \in includedFiles :
        LET r == includeFile(includedFiles, excludedFiles, p)
        IN  r.ok /\ r.inc = includedFiles /\ r.exc = excludedFiles

\* C38: a regular command is reported successful without recovery only if
\* its captured exit code reads as 0, and a capture that is missing or
\* unparsable sends the command to recovery.  A call of a regular command
\* that resolved true before any recovery has read the capture "0" and its
\* line break; a terminal that closes on no exit-code file, on an empty one
\* or on one that holds no number leaves the call in handleCommandFailure.
C38_SuccessOnlyOnExitCodeZero ==
    /\ [](/\ rc.pc = "resolved"
          /\ rc.result
          /\ rc.recoveries = 0
          /\ ~isLongRunningCommand(rc.cmd)
          => rc.capture = <<"0", "">>)
    /\ [][(/\ rc.pc = "session"
           /\ rc'.pc # "session"
           /\ rc'.capture \in {NoFile, <<>>, <<"x", "">>})
          => rc'.pc = "analysis"]_vars

\* the terminal of the first command closed without an exit-code file and
\* the call is in handleCommandFailure
C38_Witness ==
    rc.pc = "analysis" /\ rc.capture = NoFile /\ rc.recoveries = 0

\* C39: in the edit-marker pipeline a step is requested from the model at
\* most MaxAttempts times, it is requested again only after an attempt with
\* edit errors, and the final message reports success if and only if the
\* last attempt of every step applied its edit blocks without error.
C39_StatusFollowsLastAttempts ==
    /\ [](\A k \in DOMAIN pl.requests : pl.requests[k] <= MaxAttempts)
    /\ [][\A k \in DOMAIN pl.requests :
            (k \in DOMAIN pl'.requests /\ pl.requests[k] >= 1
             /\ pl'.requests[k] > pl.requests[k])
            => ~pl'.lastOk[k]]_vars
    /\ [](pl.status \in {"success", "errors"}
          => (pl.status = "success"
              <=> \A k \in DOMAIN pl.lastOk : pl.lastOk[k]))

=============================================================================
